---- MODULE Spec2Model ----
\* accountbox: credential lifecycle of the built-in codex tool, the limits
\* fan-out and the tool-table merge, modelled from the JavaScript sources.
EXTENDS Integers, Sequences, FiniteSets, TLC

\* ---------------------------------------------------------------------------
\* Bounds of the model
\* ---------------------------------------------------------------------------
MaxOps == 3
MaxClock == 1
MaxConcurrency == 3
MaxCalls == 2
MaxSeq == 2
MaxChunks == 2

\* Universe of account labels, in localeCompare order, and snapshot names.
Labels == <<"a", "B", "c">>
AllAccounts == {Labels[i] : i \in 1..Len(Labels)}
Accounts == {"a", "B"}
SnapshotNames == {"s1", "s2"}

\* Values new Date() can yield when timestampForFilename reads the wall clock.
Timestamps == 0..MaxClock

NoFile == ""

\* Bytes of the k-th auth.json the login flow writes for an account: every
\* login yields new token material.
freshAuth(account, k) == "auth-" \o account \o "-" \o ToString(k)

VARIABLES
  fs,        \* host files under ACCOUNTBOX_HOME: path -> bytes
  dirs,      \* host directories under ACCOUNTBOX_HOME
  vol,       \* docker volume name -> bytes of /root/.codex/auth.json
  issued,    \* per account: number of credentials the login flow has written
  pc,        \* per account: position of the command running on it
  cur,       \* per account: the command running or last finished, its result
  saved,     \* per snapshot name: source account and bytes at the last save
  nops,      \* number of commands started
  \* codex limits
  remote,    \* per account: what the wham/usage request of that account meets
  fstate,    \* codexLimitsAllAccounts: "init", "running", "returned", "raised"
  concurrency, \* codexLimitsAllAccounts: the concurrency it was called with
  accounts,  \* codexLimitsAllAccounts: the sorted listing
  results,   \* codexLimitsAllAccounts: the results array, index -> row
  next,      \* codexLimitsAllAccounts: the shared cursor
  wpc,       \* per worker: "claim", "fetch", "exited", "threw"
  widx,      \* per worker: the index it claimed
  order,     \* whether some fetch completed before one of a lower index
  single,    \* outcome of the last single-account limits command
  \* tool configuration
  userData,     \* parsed user tools.toml
  projectData,  \* parsed project .accountbox.toml
  mergedTools,  \* resolveToolsForCwd(cwd).mergedTools
  dispatched,   \* dispatchConfiguredTool: the tool id and the definition found
  resolved,     \* registry.resolveConfiguredTool: its def and its withSources.merged
  mounts,       \* the named volumes mounted so far, each with its tool id and account
  \* project configuration on disk and the account commands
  gitMarker,    \* per directory: ".git" is absent ("none"), a directory or a file
  tomlFiles,    \* TOML files on disk: path -> lines
  cmd,          \* the last account command: what it was given and what it did
  \* the login callback port and its guard
  running,      \* ids of the running containers that publish the port
  autoStop,     \* ACCOUNTBOX_CODEX_AUTO_STOP_PORT === '1'
  listener,     \* who listens on 127.0.0.1:port: "other" process, the "probe"
  guard,        \* ensureCodexLoginPortFree: its position and what it did
  calls,        \* number of ensureCodexLoginPortFree calls started
  flow,         \* the login child of codexHostLoginAndSync and its output handler
  \* whoami
  authJson,     \* the host auth.json whoami meets
  printed       \* codexWhoami: whether it ran, threw, and the lines it logged

lifecycleVars == <<fs, dirs, vol, issued, pc, cur, saved, nops>>

limitsVars ==
  <<remote, fstate, concurrency, accounts, results, next, wpc, widx, order, single>>

configVars == <<userData, projectData, mergedTools, dispatched, resolved, mounts>>

projectVars == <<gitMarker, tomlFiles, cmd>>

portVars == <<running, autoStop, listener, guard, calls, flow>>

whoamiVars == <<authJson, printed>>

exceptLifecycle == <<limitsVars, configVars, projectVars, portVars, whoamiVars>>

exceptLimits == <<lifecycleVars, configVars, projectVars, portVars, whoamiVars>>

exceptConfig == <<lifecycleVars, limitsVars, projectVars, portVars, whoamiVars>>

exceptProject == <<lifecycleVars, limitsVars, configVars, portVars, whoamiVars>>

exceptPort == <<lifecycleVars, limitsVars, configVars, projectVars, whoamiVars>>

vars == <<fs, dirs, vol, issued, pc, cur, saved, nops,
          remote, fstate, concurrency, accounts, results, next, wpc, widx, order, single,
          userData, projectData, mergedTools, dispatched, resolved, mounts,
          gitMarker, tomlFiles, cmd,
          running, autoStop, listener, guard, calls, flow,
          authJson, printed>>

\* ---------------------------------------------------------------------------
\* Paths and file system primitives
\* ---------------------------------------------------------------------------
codexHostHome_shared(account) == "codex/default"

codexHostHome(account) == "codex/" \o account

codexHostAuthJsonPath(account) == codexHostHome(account) \o "/auth.json"

codexSnapshotsDir == "codex-snapshots"

codexSnapshotAuthPath(name) == codexSnapshotsDir \o "/" \o name \o "/auth.json"

codexVolume(account) == "accountbox_codex_" \o account

timestampForFilename(t) == ToString(t)

loginBackupPath(account, t) ==
  codexHostHome(account) \o "/auth.json.bak-" \o timestampForFilename(t)

logoutBackupPath(account, t) ==
  codexHostHome(account) \o "/auth.json.logout-bak-" \o timestampForFilename(t)

exists(f, p) == p \in DOMAIN f

readFile(f, p) == IF p \in DOMAIN f THEN f[p] ELSE NoFile

rename(f, src, dst) ==
  [p \in (DOMAIN f \ {src}) \cup {dst} |-> IF p = dst THEN f[src] ELSE f[p]]

copyFile(f, src, dst) ==
  [p \in DOMAIN f \cup {dst} |-> IF p = dst THEN f[src] ELSE f[p]]

writeFile(f, p, bytes) ==
  [q \in DOMAIN f \cup {p} |-> IF q = p THEN bytes ELSE f[q]]

ensureDir(d, p) == d \cup {p}

\* fs.mkdir(p, {recursive: true}) of a directory one level below parent
ensureDirIn(d, parent, p) == ensureDir(ensureDir(d, parent), p)

EmptyFs == [p \in {} |-> NoFile]

\* ---------------------------------------------------------------------------
\* Per-account command record
\* ---------------------------------------------------------------------------
NoCmd ==
  [op |-> "none", method |-> "", force |-> FALSE, ok |-> FALSE,
   pre |-> NoFile, bak |-> "", snap |-> "", bytes |-> NoFile,
   afterLogout |-> FALSE, prevOk |-> FALSE, hostChanged |-> FALSE,
   applied |-> FALSE, expect |-> NoFile,
   error |-> NoFile, listChanged |-> FALSE, hadBackup |-> FALSE]

Free(a) == pc[a] \in {"idle", "done"} /\ nops < MaxOps

Begin(a, opname) ==
  [NoCmd EXCEPT !.op = opname,
                !.pre = readFile(fs, codexHostAuthJsonPath(a)),
                !.hadBackup = (\E t \in Timestamps :
                                 \/ exists(fs, loginBackupPath(a, t))
                                 \/ exists(fs, logoutBackupPath(a, t))),
                !.afterLogout = (pc[a] = "done" /\ cur[a].op = "logout"),
                !.prevOk = (pc[a] = "done" /\ cur[a].op = "logout" /\ cur[a].ok)]

\* ---------------------------------------------------------------------------
\* Helpers of the codex driver (tools/builtins/codex.js)
\* ---------------------------------------------------------------------------
forceBackup_unlink(f, account, t) ==
  [p \in DOMAIN f \ {codexHostAuthJsonPath(account)} |-> f[p]]

forceBackup_copy(f, account, t) ==
  IF exists(f, codexHostAuthJsonPath(account))
  THEN copyFile(f, codexHostAuthJsonPath(account), loginBackupPath(account, t))
  ELSE f

\* codexHostLoginAndSync, the force branch: move an existing auth.json aside.
forceBackup(f, account, t) ==
  IF exists(f, codexHostAuthJsonPath(account))
  THEN rename(f, codexHostAuthJsonPath(account), loginBackupPath(account, t))
  ELSE f

loginPortGuard_never(method, portFree) == "unchecked"

\* codexHostLoginAndSync: ensureCodexLoginPortFree(1455) is awaited for the
\* browser method only; it returns when the port is free and throws when it
\* is not.
loginPortGuard(method, portFree) ==
  IF method = "browser" THEN (IF portFree THEN "free" ELSE "busy") ELSE "unchecked"

codexHostLogout_copy(f, account, t) ==
  IF ~exists(f, codexHostAuthJsonPath(account))
  THEN [fs |-> f, bak |-> ""]
  ELSE [fs |-> copyFile(f, codexHostAuthJsonPath(account), logoutBackupPath(account, t)),
        bak |-> logoutBackupPath(account, t)]

\* codexHostLogout: returns the new file system and the backup path (or "").
codexHostLogout(f, account, t) ==
  IF ~exists(f, codexHostAuthJsonPath(account))
  THEN [fs |-> f, bak |-> ""]
  ELSE [fs |-> rename(f, codexHostAuthJsonPath(account), logoutBackupPath(account, t)),
        bak |-> logoutBackupPath(account, t)]

syncCodexAuthToVolume_noCopy(f, v, account, dockerUp) ==
  IF ~dockerUp THEN [ok |-> FALSE, vol |-> v, error |-> "docker"]
  ELSE IF ~exists(f, codexHostAuthJsonPath(account))
  THEN [ok |-> FALSE, vol |-> v, error |-> codexHostAuthJsonPath(account)]
  ELSE [ok |-> TRUE, vol |-> v, error |-> NoFile]

\* syncCodexAuthToVolume: docker ps, the exists check (its error names the
\* expected path), then cp into the volume.
syncCodexAuthToVolume(f, v, account, dockerUp) ==
  IF ~dockerUp THEN [ok |-> FALSE, vol |-> v, error |-> "docker"]
  ELSE IF ~exists(f, codexHostAuthJsonPath(account))
  THEN [ok |-> FALSE, vol |-> v, error |-> codexHostAuthJsonPath(account)]
  ELSE [ok |-> TRUE, error |-> NoFile,
        vol |-> [v EXCEPT ![codexVolume(account)] = f[codexHostAuthJsonPath(account)]]]

\* The sort of the listings: localeCompare order of the labels and names.
RECURSIVE insertSorted(_, _)
insertSorted(sorted, a) ==
  LET collation == Labels \o <<"s1", "s2">>
      rank(label) == CHOOSE i \in 1..Len(collation) : collation[i] = label
  IN IF sorted = <<>> THEN <<a>>
     ELSE IF rank(a) < rank(Head(sorted)) THEN <<a>> \o sorted
     ELSE <<Head(sorted)>> \o insertSorted(Tail(sorted), a)

RECURSIVE sortByLabel(_)
sortByLabel(entries) ==
  IF entries = <<>> THEN <<>>
  ELSE insertSorted(sortByLabel(Tail(entries)), Head(entries))

Orderings(S) == {q \in [1..Cardinality(S) -> S] : \A x \in S : \E i \in DOMAIN q : q[i] = x}

\* listCodexSnapshots: [] when the snapshots directory is absent, else one
\* record per directory in it, sorted by name.
listCodexSnapshots(f, d) ==
  IF codexSnapshotsDir \notin d THEN <<>>
  ELSE LET names == {n \in SnapshotNames : (codexSnapshotsDir \o "/" \o n) \in d}
           sorted == sortByLabel(CHOOSE q \in Orderings(names) : TRUE)
       IN [i \in DOMAIN sorted |->
             [name |-> sorted[i], hasAuth |-> exists(f, codexSnapshotAuthPath(sorted[i]))]]

saveCodexSnapshot_mkdirFirst(f, d, fromAccount, snapshotName) ==
  IF ~exists(f, codexHostAuthJsonPath(fromAccount))
  THEN [ok |-> FALSE, fs |-> f,
        dirs |-> ensureDirIn(d, codexSnapshotsDir, codexSnapshotsDir \o "/" \o snapshotName),
        error |-> codexHostAuthJsonPath(fromAccount)]
  ELSE [ok |-> TRUE, error |-> NoFile,
        fs |-> copyFile(f, codexHostAuthJsonPath(fromAccount),
                        codexSnapshotAuthPath(snapshotName)),
        dirs |-> ensureDirIn(d, codexSnapshotsDir,
                             codexSnapshotsDir \o "/" \o snapshotName)]

\* saveCodexSnapshot: ensureDir of the snapshots directory, the exists check,
\* which throws an error that names the account's auth.json path, then
\* ensureDir of the snapshot's directory and the copy.
saveCodexSnapshot(f, d, fromAccount, snapshotName) ==
  IF ~exists(f, codexHostAuthJsonPath(fromAccount))
  THEN [ok |-> FALSE, fs |-> f, dirs |-> ensureDir(d, codexSnapshotsDir),
        error |-> codexHostAuthJsonPath(fromAccount)]
  ELSE [ok |-> TRUE, error |-> NoFile,
        fs |-> copyFile(f, codexHostAuthJsonPath(fromAccount),
                        codexSnapshotAuthPath(snapshotName)),
        dirs |-> ensureDirIn(d, codexSnapshotsDir,
                             codexSnapshotsDir \o "/" \o snapshotName)]

applyCodexSnapshotToAccount_keepExisting(f, d, v, snapshotName, toAccount, dockerUp) ==
  IF ~exists(f, codexSnapshotAuthPath(snapshotName))
  THEN [ok |-> FALSE, applied |-> FALSE, fs |-> f, dirs |-> d, vol |-> v,
        error |-> codexSnapshotAuthPath(snapshotName)]
  ELSE LET f2 == IF exists(f, codexHostAuthJsonPath(toAccount)) THEN f
                 ELSE copyFile(f, codexSnapshotAuthPath(snapshotName),
                               codexHostAuthJsonPath(toAccount))
           r == syncCodexAuthToVolume(f2, v, toAccount, dockerUp)
       IN [ok |-> r.ok, applied |-> TRUE, fs |-> f2,
           dirs |-> ensureDirIn(d, "codex", codexHostHome(toAccount)),
           vol |-> r.vol, error |-> NoFile]

applyCodexSnapshotToAccount_noSync(f, d, v, snapshotName, toAccount, dockerUp) ==
  IF ~exists(f, codexSnapshotAuthPath(snapshotName))
  THEN [ok |-> FALSE, applied |-> FALSE, fs |-> f, dirs |-> d, vol |-> v,
        error |-> codexSnapshotAuthPath(snapshotName)]
  ELSE [ok |-> dockerUp, applied |-> TRUE,
        fs |-> copyFile(f, codexSnapshotAuthPath(snapshotName),
                        codexHostAuthJsonPath(toAccount)),
        dirs |-> ensureDirIn(d, "codex", codexHostHome(toAccount)),
        vol |-> v, error |-> NoFile]

applyCodexSnapshotToAccount_mkdirFirst(f, d, v, snapshotName, toAccount, dockerUp) ==
  IF ~exists(f, codexSnapshotAuthPath(snapshotName))
  THEN [ok |-> FALSE, applied |-> FALSE, fs |-> f,
        dirs |-> ensureDirIn(d, "codex", codexHostHome(toAccount)), vol |-> v,
        error |-> codexSnapshotAuthPath(snapshotName)]
  ELSE LET f2 == copyFile(f, codexSnapshotAuthPath(snapshotName),
                          codexHostAuthJsonPath(toAccount))
           r == syncCodexAuthToVolume(f2, v, toAccount, dockerUp)
       IN [ok |-> r.ok, applied |-> TRUE, fs |-> f2,
           dirs |-> ensureDirIn(d, "codex", codexHostHome(toAccount)),
           vol |-> r.vol, error |-> NoFile]

\* applyCodexSnapshotToAccount: the exists check, which throws an error that
\* names the snapshot's auth.json path; then copy the snapshot over the host
\* file and sync.
applyCodexSnapshotToAccount(f, d, v, snapshotName, toAccount, dockerUp) ==
  IF ~exists(f, codexSnapshotAuthPath(snapshotName))
  THEN [ok |-> FALSE, applied |-> FALSE, fs |-> f, dirs |-> d, vol |-> v,
        error |-> codexSnapshotAuthPath(snapshotName)]
  ELSE LET f2 == copyFile(f, codexSnapshotAuthPath(snapshotName),
                          codexHostAuthJsonPath(toAccount))
           r == syncCodexAuthToVolume(f2, v, toAccount, dockerUp)
       IN [ok |-> r.ok, applied |-> TRUE, fs |-> f2,
           dirs |-> ensureDirIn(d, "codex", codexHostHome(toAccount)),
           vol |-> r.vol, error |-> NoFile]

\* A fresh ACCOUNTBOX_HOME: nothing on disk, no volume content.
LifecycleFresh ==
  /\ fs = EmptyFs
  /\ dirs = {}
  /\ vol = [w \in {codexVolume(a) : a \in AllAccounts} |-> NoFile]
  /\ issued = [a \in Accounts |-> 0]
  /\ pc = [a \in Accounts |-> "idle"]
  /\ cur = [a \in Accounts |-> NoCmd]
  /\ saved = [n \in SnapshotNames |-> [from |-> "", bytes |-> NoFile]]
  /\ nops = 0

NoRow == [account |-> "", ok |-> FALSE, error |-> "<empty>", usage |-> ""]

NoSingle == [account |-> "", raised |-> FALSE, ok |-> FALSE, error |-> "", usage |-> ""]

LimitsIdle ==
  /\ remote = [a \in AllAccounts |-> "ok"]
  /\ fstate = "init"
  /\ concurrency = 0
  /\ accounts = <<>>
  /\ results = <<>>
  /\ next = 0
  /\ wpc = <<>>
  /\ widx = <<>>
  /\ order = FALSE
  /\ single = NoSingle

EmptyObject == [k \in {} |-> ""]

ConfigIdle ==
  /\ userData = EmptyObject
  /\ projectData = EmptyObject
  /\ mergedTools = [done |-> FALSE, tools |-> EmptyObject]
  /\ dispatched = [toolId |-> "", found |-> FALSE, def |-> EmptyObject]
  /\ resolved = [toolId |-> "", def |-> [null |-> TRUE, value |-> EmptyObject],
                 merged |-> [null |-> TRUE, value |-> EmptyObject]]
  /\ mounts = {}

\* ---------------------------------------------------------------------------
\* Project configuration: directories, TOML files, the last account command
\* ---------------------------------------------------------------------------
\* The directories a command can run in: the filesystem root, a directory in
\* it and a subdirectory of that one.
Dirs == {"/", "/r", "/r/s"}

NoDir == ""

NoPath == ""

NoArg == ""

\* What one account command was given and what it did.
NoCommand ==
  [op |-> "none", tool |-> "", cwd |-> "", account |-> NoArg, args |-> <<>>,
   ok |-> FALSE, error |-> "", resolved |-> "", target |-> "", file |-> NoPath,
   afterSet |-> "", kind |-> "", exitCode |-> 0, out |-> EmptyObject,
   accountArg |-> NoArg, argsList |-> <<>>]

\* No login child: the streams hold the chunks the child is still to emit,
\* TRUE for a chunk in which urlRe matches.
NoFlow ==
  [pc |-> "idle", openBrowser |-> FALSE, stdout |-> <<>>, stderr |-> <<>>,
   method |-> "", port |-> "unchecked",
   opened |-> FALSE, attempts |-> 0, pending |-> 0, failed |-> 0,
   matched |-> 0, attemptAt |-> 0, exitCode |-> 0, result |-> "",
   dockerUp |-> FALSE, synced |-> FALSE, error |-> NoFile, volBefore |-> NoFile]

\* ensureCodexLoginPortFree before any call.
NoGuard ==
  [pc |-> "idle", psOk |-> FALSE, before |-> {}, containers |-> <<>>, i |-> 0,
   stopped |-> {}, probed |-> FALSE, bindError |-> "", bound |-> FALSE,
   released |-> FALSE, error |-> "", listed |-> {}, hint |-> FALSE]

PortIdle ==
  /\ running = {}
  /\ autoStop = FALSE
  /\ listener = {}
  /\ guard = NoGuard
  /\ calls = 0
  /\ flow = NoFlow

WhoamiIdle ==
  /\ authJson = [present |-> FALSE]
  /\ printed = [done |-> FALSE, thrown |-> FALSE, lines |-> <<>>]

ProjectIdle ==
  /\ gitMarker = [d \in Dirs |-> "none"]
  /\ tomlFiles = <<>>
  /\ cmd = NoCommand

\* ACCOUNTBOX_HOME is empty, or is as a first successful device login on
\* account "a" leaves it.
Init ==
  /\ \/ LifecycleFresh
     \/ /\ fs = writeFile(EmptyFs, codexHostAuthJsonPath("a"), freshAuth("a", 1))
        /\ dirs = ensureDirIn({}, "codex", codexHostHome("a"))
        /\ vol = [w \in {codexVolume(a) : a \in AllAccounts} |->
                    IF w = codexVolume("a") THEN freshAuth("a", 1) ELSE NoFile]
        /\ issued = [a \in Accounts |-> IF a = "a" THEN 1 ELSE 0]
        /\ pc = [a \in Accounts |-> "idle"]
        /\ cur = [a \in Accounts |-> NoCmd]
        /\ saved = [n \in SnapshotNames |-> [from |-> "", bytes |-> NoFile]]
        /\ nops = 0
  /\ LimitsIdle /\ ConfigIdle /\ ProjectIdle /\ PortIdle /\ WhoamiIdle

\* ---------------------------------------------------------------------------
\* Commands of the codex driver
\* ---------------------------------------------------------------------------
Finish(a, rec) ==
  /\ pc' = [pc EXCEPT ![a] = "done"]
  /\ cur' = [cur EXCEPT ![a] = rec]

\* login (device or browser) up to the start of the host codex child:
\* ensureDir, the force backup (the timestamp is read only when a file is
\* moved), and for --browser ensureCodexLoginPortFree(1455), which throws
\* when the port cannot be freed.
LoginStart(a, method, force, portFree) ==
  /\ Free(a)
  /\ nops' = nops + 1
  /\ dirs' = ensureDirIn(dirs, "codex", codexHostHome(a))
  /\ \E t \in IF force /\ exists(fs, codexHostAuthJsonPath(a)) THEN Timestamps ELSE {0} :
       /\ fs' = IF force THEN forceBackup(fs, a, t) ELSE fs
       /\ LET rec == [Begin(a, "login") EXCEPT
                        !.method = method, !.force = force,
                        !.bak = IF force /\ exists(fs, codexHostAuthJsonPath(a))
                                THEN loginBackupPath(a, t) ELSE ""]
          IN IF loginPortGuard(method, portFree) = "busy"
             THEN Finish(a, [rec EXCEPT !.ok = FALSE])
             ELSE /\ cur' = [cur EXCEPT ![a] = rec]
                  /\ pc' = [pc EXCEPT ![a] = "login_flow"]
  /\ UNCHANGED <<vol, issued, saved>>
  /\ UNCHANGED exceptLifecycle

\* The host codex login child and what follows it: the child exits 0 having
\* written auth.json into CODEX_HOME, exits 0 without a file, or fails (also:
\* no runner found); after exit 0 syncCodexAuthToVolume runs.
LoginFlow(a, outcome, dockerUp) ==
  /\ pc[a] = "login_flow"
  /\ IF outcome = "failed"
     THEN /\ Finish(a, [cur[a] EXCEPT !.ok = FALSE])
          /\ UNCHANGED <<fs, issued, vol>>
     ELSE LET f == IF outcome = "written"
                   THEN writeFile(fs, codexHostAuthJsonPath(a), freshAuth(a, issued[a] + 1))
                   ELSE fs
              r == syncCodexAuthToVolume(f, vol, a, dockerUp)
          IN /\ fs' = f
             /\ issued' = [issued EXCEPT ![a] = IF outcome = "written" THEN @ + 1 ELSE @]
             /\ vol' = r.vol
             /\ Finish(a, [cur[a] EXCEPT !.ok = r.ok])
  /\ UNCHANGED <<dirs, saved, nops>>
  /\ UNCHANGED exceptLifecycle

\* login --api-key: the key is piped to a login inside the container.
LoginApiKey(a, hasKey, dockerUp) ==
  /\ Free(a)
  /\ nops' = nops + 1
  /\ vol' = IF hasKey /\ dockerUp
            THEN [vol EXCEPT ![codexVolume(a)] = "apikey-auth"] ELSE vol
  /\ Finish(a, [Begin(a, "login") EXCEPT !.method = "api-key",
                                         !.ok = (hasKey /\ dockerUp)])
  /\ UNCHANGED <<fs, dirs, issued, saved>>
  /\ UNCHANGED exceptLifecycle

\* logout: codex logout in the container (execa rejects on a failure), then
\* the host half.
Logout(a, containerOk) ==
  /\ Free(a)
  /\ nops' = nops + 1
  /\ IF ~containerOk
     THEN /\ Finish(a, [Begin(a, "logout") EXCEPT !.ok = FALSE])
          /\ UNCHANGED <<fs, vol>>
     ELSE \E t \in IF exists(fs, codexHostAuthJsonPath(a)) THEN Timestamps ELSE {0} :
            LET r == codexHostLogout(fs, a, t)
            IN /\ fs' = r.fs
               /\ vol' = [vol EXCEPT ![codexVolume(a)] = NoFile]
               /\ Finish(a, [Begin(a, "logout") EXCEPT
                               !.ok = TRUE, !.bak = r.bak,
                               !.hostChanged = (r.fs # fs)])
  /\ UNCHANGED <<dirs, issued, saved>>
  /\ UNCHANGED exceptLifecycle

\* save <snapshotName>
Save(a, n) ==
  /\ Free(a)
  /\ nops' = nops + 1
  /\ LET r == saveCodexSnapshot(fs, dirs, a, n)
     IN /\ fs' = r.fs
        /\ dirs' = r.dirs
        /\ saved' = IF r.ok
                    THEN [saved EXCEPT ![n] =
                            [from |-> a, bytes |-> readFile(fs, codexHostAuthJsonPath(a))]]
                    ELSE saved
        /\ Finish(a, [Begin(a, "save") EXCEPT
                        !.ok = r.ok, !.snap = n, !.error = r.error,
                        \* what a failed save changed
                        !.hostChanged = (~r.ok /\ r.fs # fs),
                        !.listChanged = (~r.ok /\ listCodexSnapshots(r.fs, r.dirs)
                                                    # listCodexSnapshots(fs, dirs))])
  /\ UNCHANGED <<vol, issued>>
  /\ UNCHANGED exceptLifecycle

\* switch <snapshotName> [toAccount]
Switch(n, b, dockerUp) ==
  /\ Free(b)
  /\ nops' = nops + 1
  /\ LET r == applyCodexSnapshotToAccount(fs, dirs, vol, n, b, dockerUp)
     IN /\ fs' = r.fs
        /\ dirs' = r.dirs
        /\ vol' = r.vol
        /\ Finish(b, [Begin(b, "switch") EXCEPT
                        !.ok = r.ok, !.snap = n, !.applied = r.applied,
                        !.error = r.error,
                        \* what a failed switch changed
                        !.hostChanged = (~r.applied /\
                                           (r.fs # fs \/ r.dirs # dirs \/ r.vol # vol)),
                        !.bytes = readFile(fs, codexSnapshotAuthPath(n)),
                        !.expect = saved[n].bytes])
  /\ UNCHANGED <<issued, saved>>
  /\ UNCHANGED exceptLifecycle

\* ---------------------------------------------------------------------------
\* codex limits: per-account fetch, fan-out, single-account variant
\* ---------------------------------------------------------------------------
\* Contents a host auth.json can have besides the ones login writes.
GarbageAuth == "not-json"
NoTokenAuth == "json-without-access-token"
ApiKeyJson == "json-with-OPENAI_API_KEY-only"

\* JSON.parse of auth.json and the fields codexLimitsForAccount reads.
parseAuth(bytes) ==
  [parsed |-> bytes # GarbageAuth,
   accessToken |-> IF bytes \in {GarbageAuth, NoTokenAuth, ApiKeyJson}
                   THEN "" ELSE "token-of-" \o bytes,
   hasApiKey |-> bytes = ApiKeyJson]

\* fetchChatgptWhamUsage: returns the parsed body or throws.
fetchChatgptWhamUsage(accessToken, resp) ==
  IF accessToken = "" THEN [thrown |-> TRUE, msg |-> "Missing access token.", value |-> ""]
  ELSE CASE resp = "timeout" -> [thrown |-> TRUE, msg |-> "This operation was aborted", value |-> ""]
         [] resp = "http" -> [thrown |-> TRUE, msg |-> "HTTP 500 from wham/usage", value |-> ""]
         [] resp = "nonjson" -> [thrown |-> TRUE, msg |-> "wham/usage returned non-JSON.", value |-> ""]
         [] OTHER -> [thrown |-> FALSE, msg |-> "", value |-> "usage-for-" \o accessToken]

\* codexLimitsForAccount: returns {ok, usage|error} or lets the fetch's
\* exception through.
codexLimitsForAccount(f, account, resp) ==
  LET hostAuth == codexHostAuthJsonPath(account)
      obj == parseAuth(readFile(f, hostAuth))
  IN IF ~exists(f, hostAuth)
     THEN [thrown |-> FALSE, ok |-> FALSE, error |-> "missing auth.json", usage |-> ""]
     ELSE IF ~obj.parsed
     THEN [thrown |-> FALSE, ok |-> FALSE, error |-> "failed to parse auth.json", usage |-> ""]
     ELSE IF obj.accessToken = ""
     THEN [thrown |-> FALSE, ok |-> FALSE, usage |-> "",
           error |-> IF obj.hasApiKey THEN "api-key auth: limits fetch not implemented yet"
                     ELSE "missing access_token (not logged in?)"]
     ELSE LET u == fetchChatgptWhamUsage(obj.accessToken, resp)
          IN IF u.thrown
             THEN [thrown |-> TRUE, ok |-> FALSE, error |-> u.msg, usage |-> ""]
             ELSE [thrown |-> FALSE, ok |-> TRUE, error |-> "", usage |-> u.value]

listCodexAccounts_noSort(f, d, entries) ==
  IF "codex" \notin d THEN <<>>
  ELSE [i \in DOMAIN entries |->
          [account |-> entries[i], hasAuth |-> exists(f, codexHostAuthJsonPath(entries[i]))]]

\* listCodexAccounts: [] when codex/ is absent, else one record per directory
\* that readdir yields (entries, in readdir order), sorted by label.
listCodexAccounts(f, d, entries) ==
  IF "codex" \notin d THEN <<>>
  ELSE LET sorted == sortByLabel(entries)
       IN [i \in DOMAIN sorted |->
             [account |-> sorted[i], hasAuth |-> exists(f, codexHostAuthJsonPath(sorted[i]))]]

workerRow_noCatch(account, r) ==
  [raised |-> r.thrown,
   row |-> [account |-> account, ok |-> r.ok, error |-> r.error, usage |-> r.usage]]

\* The worker's try/catch: a thrown error becomes an ok=false row.
workerRow(account, r) ==
  IF r.thrown
  THEN [raised |-> FALSE,
        row |-> [account |-> account, ok |-> FALSE, error |-> r.error, usage |-> ""]]
  ELSE [raised |-> FALSE,
        row |-> [account |-> account, ok |-> r.ok, error |-> r.error, usage |-> r.usage]]

storeResult_push(res, i, row) ==
  LET free == {j \in DOMAIN res : res[j] = NoRow}
      k == CHOOSE j \in free : \A j2 \in free : j <= j2
  IN [res EXCEPT ![k] = row]

\* results[i] = row
storeResult(res, i, row) == [res EXCEPT ![i] = row]

FetchAllStart_workerPerAccount(limit, entries) ==
  /\ fstate = "init"
  /\ concurrency' = limit
  /\ LET records == listCodexAccounts(fs, dirs, entries)
         listing == [i \in DOMAIN records |-> records[i].account]
         n == Len(listing)
         nworkers == n
     IN /\ accounts' = listing
        /\ results' = [i \in 0..(n - 1) |-> NoRow]
        /\ next' = 0
        /\ wpc' = [w \in 1..nworkers |-> "claim"]
        /\ widx' = [w \in 1..nworkers |-> 0]
        /\ fstate' = IF n = 0 THEN "returned" ELSE "running"
  /\ order' = FALSE
  /\ UNCHANGED <<remote, single>>
  /\ UNCHANGED exceptLimits

\* codexLimitsAllAccounts up to the creation of the workers.
FetchAllStart(limit, entries) ==
  /\ fstate = "init"
  /\ concurrency' = limit
  /\ LET records == listCodexAccounts(fs, dirs, entries)
         listing == [i \in DOMAIN records |-> records[i].account]
         n == Len(listing)
         nworkers == IF limit < n THEN limit ELSE n
     IN /\ accounts' = listing
        /\ results' = [i \in 0..(n - 1) |-> NoRow]
        /\ next' = 0
        /\ wpc' = [w \in 1..nworkers |-> "claim"]
        /\ widx' = [w \in 1..nworkers |-> 0]
        /\ fstate' = IF n = 0 THEN "returned" ELSE "running"
  /\ order' = FALSE
  /\ UNCHANGED <<remote, single>>
  /\ UNCHANGED exceptLimits

WorkerClaim_noAdvance(w) ==
  /\ fstate = "running"
  /\ w \in DOMAIN wpc
  /\ wpc[w] = "claim"
  /\ next' = next
  /\ IF next >= Len(accounts)
     THEN wpc' = [wpc EXCEPT ![w] = "exited"] /\ UNCHANGED widx
     ELSE wpc' = [wpc EXCEPT ![w] = "fetch"] /\ widx' = [widx EXCEPT ![w] = next]
  /\ UNCHANGED <<remote, concurrency, fstate, accounts, results, order, single>>
  /\ UNCHANGED exceptLimits

\* const i = next++; if (i >= accounts.length) break; then the fetch starts.
WorkerClaim(w) ==
  /\ fstate = "running"
  /\ w \in DOMAIN wpc
  /\ wpc[w] = "claim"
  /\ next' = next + 1
  /\ IF next >= Len(accounts)
     THEN wpc' = [wpc EXCEPT ![w] = "exited"] /\ UNCHANGED widx
     ELSE wpc' = [wpc EXCEPT ![w] = "fetch"] /\ widx' = [widx EXCEPT ![w] = next]
  /\ UNCHANGED <<remote, concurrency, fstate, accounts, results, order, single>>
  /\ UNCHANGED exceptLimits

WorkerComplete_noTimeout(w) ==
  /\ fstate = "running"
  /\ w \in DOMAIN wpc
  /\ wpc[w] = "fetch"
  /\ remote[accounts[widx[w] + 1]] # "timeout"
  /\ LET a == accounts[widx[w] + 1]
         out == workerRow(a, codexLimitsForAccount(fs, a, remote[a]))
     IN IF out.raised
        THEN wpc' = [wpc EXCEPT ![w] = "threw"] /\ UNCHANGED results
        ELSE /\ wpc' = [wpc EXCEPT ![w] = "claim"]
             /\ results' = storeResult(results, widx[w], out.row)
  /\ order' = (order \/ \E i \in 0..(widx[w] - 1) : results[i] = NoRow)
  /\ UNCHANGED <<remote, concurrency, fstate, accounts, next, widx, single>>
  /\ UNCHANGED exceptLimits

\* The awaited codexLimitsForAccount settles; the row is stored.
WorkerComplete(w) ==
  /\ fstate = "running"
  /\ w \in DOMAIN wpc
  /\ wpc[w] = "fetch"
  /\ LET a == accounts[widx[w] + 1]
         out == workerRow(a, codexLimitsForAccount(fs, a, remote[a]))
     IN IF out.raised
        THEN wpc' = [wpc EXCEPT ![w] = "threw"] /\ UNCHANGED results
        ELSE /\ wpc' = [wpc EXCEPT ![w] = "claim"]
             /\ results' = storeResult(results, widx[w], out.row)
  /\ order' = (order \/ \E i \in 0..(widx[w] - 1) : results[i] = NoRow)
  /\ UNCHANGED <<remote, concurrency, fstate, accounts, next, widx, single>>
  /\ UNCHANGED exceptLimits

\* await Promise.all(workers); return results
FetchAllSettle ==
  /\ fstate = "running"
  /\ \A w \in DOMAIN wpc : wpc[w] \in {"exited", "threw"}
  /\ fstate' = IF \E w \in DOMAIN wpc : wpc[w] = "threw" THEN "raised" ELSE "returned"
  /\ UNCHANGED <<remote, concurrency, accounts, results, next, wpc, widx, order, single>>
  /\ UNCHANGED exceptLimits

\* codex <account> limits: no worker pool, no try/catch.
LimitsSingle(a) ==
  /\ fstate = "returned"
  /\ single = NoSingle
  /\ LET r == codexLimitsForAccount(fs, a, remote[a])
     IN single' = [account |-> a, raised |-> r.thrown, ok |-> r.ok,
                   error |-> r.error, usage |-> r.usage]
  /\ UNCHANGED <<remote, concurrency, fstate, accounts, results, next, wpc, widx, order>>
  /\ UNCHANGED exceptLimits

\* Host states an account can be in when limits runs, and what its request meets.
InitLimits ==
  /\ \E kind \in [AllAccounts -> {"nodir", "noauth", "garbage", "notoken", "apikey", "valid"}] :
       /\ dirs = {codexHostHome(a) : a \in {x \in AllAccounts : kind[x] # "nodir"}}
                 \cup (IF \E x \in AllAccounts : kind[x] # "nodir" THEN {"codex"} ELSE {})
       /\ fs = [p \in {codexHostAuthJsonPath(a) : a \in {x \in AllAccounts : kind[x] \notin {"nodir", "noauth"}}}
                  |-> LET a == CHOOSE x \in AllAccounts : codexHostAuthJsonPath(x) = p
                      IN CASE kind[a] = "garbage" -> GarbageAuth
                           [] kind[a] = "notoken" -> NoTokenAuth
                           [] kind[a] = "apikey" -> ApiKeyJson
                           [] OTHER -> freshAuth(a, 1)]
       /\ remote \in [AllAccounts -> {"ok", "timeout", "http", "nonjson"}]
       /\ \A a \in AllAccounts : kind[a] # "valid" => remote[a] = "ok"
  /\ vol = [w \in {codexVolume(a) : a \in AllAccounts} |-> NoFile]
  /\ issued = [a \in Accounts |-> 0]
  /\ pc = [a \in Accounts |-> "idle"]
  /\ cur = [a \in Accounts |-> NoCmd]
  /\ saved = [n \in SnapshotNames |-> [from |-> "", bytes |-> NoFile]]
  /\ nops = 0
  /\ fstate = "init"
  /\ concurrency = 0
  /\ accounts = <<>>
  /\ results = <<>>
  /\ next = 0
  /\ wpc = <<>>
  /\ widx = <<>>
  /\ order = FALSE
  /\ single = NoSingle
  /\ ConfigIdle
  /\ ProjectIdle
  /\ PortIdle
  /\ WhoamiIdle

NextLimits ==
  \/ \E c \in 1..MaxConcurrency, entries \in Orderings({a \in AllAccounts : codexHostHome(a) \in dirs}) : FetchAllStart(c, entries)
  \/ \E w \in 1..MaxConcurrency : WorkerClaim(w)
  \/ \E w \in 1..MaxConcurrency : WorkerComplete(w)
  \/ FetchAllSettle
  \/ \E a \in AllAccounts : LimitsSingle(a)

SpecLimits == InitLimits /\ [][NextLimits]_vars

\* Accounts that are logged in or absent and whose requests are answered or
\* time out.
InitLimitsLive ==
  /\ InitLimits
  /\ \A a \in AllAccounts :
       /\ remote[a] \in {"ok", "timeout"}
       /\ codexHostHome(a) \in dirs => readFile(fs, codexHostAuthJsonPath(a)) = freshAuth(a, 1)

\* The event loop runs every continuation that is ready, and every request
\* settles: by its response or by the abort of its timeout.
SpecLimitsLive ==
  /\ InitLimitsLive
  /\ [][NextLimits]_vars
  /\ \A w \in 1..MaxConcurrency : WF_vars(WorkerClaim(w)) /\ WF_vars(WorkerComplete(w))
  /\ WF_vars(FetchAllSettle)

\* ---------------------------------------------------------------------------
\* Tool configuration: user tools.toml and project .accountbox.toml
\* ---------------------------------------------------------------------------
ToolIds == {"t1", "t2"}

\* Parsed TOML documents: with or without a [tools] table; a tool
\* definition is a table with any subset of the keys of FieldValues.
ConfigDocs ==
  LET FieldValues == [mode |-> {"native", "container"}, command |-> {"cmd"}]
      ToolDefs ==
        UNION {{d \in [S -> UNION {FieldValues[k] : k \in DOMAIN FieldValues}] :
                  \A k \in S : d[k] \in FieldValues[k]} : S \in SUBSET DOMAIN FieldValues}
      ToolTables == UNION {[S -> ToolDefs] : S \in SUBSET ToolIds}
  IN {EmptyObject} \cup {[tools |-> t] : t \in ToolTables \ {EmptyObject}}

\* data?.tools || {}
toolsOf(data) == IF "tools" \in DOMAIN data THEN data.tools ELSE EmptyObject

\* {...x, ...y}
spread(x, y) == [k \in DOMAIN x \cup DOMAIN y |-> IF k \in DOMAIN y THEN y[k] ELSE x[k]]

mergeTools_fieldMerge(projData, usrData) ==
  LET u == toolsOf(usrData)
      q == toolsOf(projData)
  IN [k \in DOMAIN u \cup DOMAIN q |->
        IF k \in DOMAIN u /\ k \in DOMAIN q THEN spread(u[k], q[k])
        ELSE IF k \in DOMAIN q THEN q[k] ELSE u[k]]

\* mergeTools(projectData, userData)
mergeTools(projData, usrData) == spread(toolsOf(usrData), toolsOf(projData))

\* dispatchConfiguredTool: the table it builds inline.
dispatchTools(projData, usrData) == spread(toolsOf(usrData), toolsOf(projData))

\* resolveToolsForCwd
ResolveToolsForCwd ==
  /\ mergedTools' = [done |-> TRUE, tools |-> mergeTools(projectData, userData)]
  /\ UNCHANGED <<userData, projectData, dispatched, resolved, mounts>>
  /\ UNCHANGED exceptConfig

\* dispatchConfiguredTool up to the lookup of the definition.
DispatchConfiguredTool(toolId) ==
  /\ LET tools == dispatchTools(projectData, userData)
     IN dispatched' = [toolId |-> toolId,
                       found |-> toolId \in DOMAIN tools,
                       def |-> IF toolId \in DOMAIN tools THEN tools[toolId] ELSE EmptyObject]
  /\ UNCHANGED <<userData, projectData, mergedTools, resolved, mounts>>
  /\ UNCHANGED exceptConfig

\* resolveToolDefinitionWithSources: merged spreads the user's definition of
\* the id and then the project's; it is null when no key results.
resolveToolDefinitionWithSources(toolId, projData, usrData) ==
  LET userDef == IF toolId \in DOMAIN toolsOf(usrData)
                 THEN toolsOf(usrData)[toolId] ELSE EmptyObject
      projectDef == IF toolId \in DOMAIN toolsOf(projData)
                    THEN toolsOf(projData)[toolId] ELSE EmptyObject
      mergedDef == spread(userDef, projectDef)
  IN [merged |-> [null |-> (DOMAIN mergedDef = {}), value |-> mergedDef],
      user |-> toolId \in DOMAIN toolsOf(usrData),
      project |-> toolId \in DOMAIN toolsOf(projData)]

\* registry.resolveConfiguredTool: def is mergedTools?.[toolId] || null,
\* withSources comes from resolveToolDefinitionWithSources.
ResolveConfiguredTool(toolId) ==
  /\ LET tools == mergeTools(projectData, userData)
         withSources == resolveToolDefinitionWithSources(toolId, projectData, userData)
     IN resolved' = [toolId |-> toolId,
                     def |-> IF toolId \in DOMAIN tools
                             THEN [null |-> FALSE, value |-> tools[toolId]]
                             ELSE [null |-> TRUE, value |-> EmptyObject],
                     merged |-> withSources.merged]
  /\ UNCHANGED <<userData, projectData, mergedTools, dispatched, mounts>>
  /\ UNCHANGED exceptConfig

InitConfig ==
  /\ LifecycleFresh
  /\ LimitsIdle
  /\ ProjectIdle
  /\ PortIdle
  /\ WhoamiIdle
  /\ userData \in ConfigDocs
  /\ projectData \in ConfigDocs
  /\ mergedTools = [done |-> FALSE, tools |-> EmptyObject]
  /\ dispatched = [toolId |-> "", found |-> FALSE, def |-> EmptyObject]
  /\ resolved = [toolId |-> "", def |-> [null |-> TRUE, value |-> EmptyObject],
                 merged |-> [null |-> TRUE, value |-> EmptyObject]]
  /\ mounts = {}

NextConfig ==
  \/ ResolveToolsForCwd
  \/ \E toolId \in ToolIds : DispatchConfiguredTool(toolId)
  \/ \E toolId \in ToolIds : ResolveConfiguredTool(toolId)

SpecConfig == InitConfig /\ [][NextConfig]_vars

\* ---------------------------------------------------------------------------
\* Project configuration: TOML, discovery, set / resolve / codex dispatch
\* ---------------------------------------------------------------------------
\* Lines of a TOML file: key = "value", a [tools.<id>] header, a blank line.
kv(k, v) == [t |-> "kv", k |-> k, v |-> v]

table(id) == [t |-> "table", k |-> id, v |-> ""]

\* toml.parse: a key belongs to the table whose header precedes it, to the
\* top level when none does; a repeated key or header is a syntax error.
RECURSIVE tomlParse(_, _, _)
tomlParse(lines, tbl, doc) ==
  IF lines = <<>> THEN doc
  ELSE LET l == Head(lines)
       IN CASE l.t = "blank" -> tomlParse(Tail(lines), tbl, doc)
            [] l.t = "table" ->
                 IF l.k \in DOMAIN doc.tools THEN [doc EXCEPT !.ok = FALSE]
                 ELSE tomlParse(Tail(lines), l.k,
                                [doc EXCEPT !.tools = (l.k :> EmptyObject) @@ @])
            [] OTHER ->
                 IF tbl = ""
                 THEN IF l.k \in DOMAIN doc.top THEN [doc EXCEPT !.ok = FALSE]
                      ELSE tomlParse(Tail(lines), tbl,
                                     [doc EXCEPT !.top = (l.k :> l.v) @@ @])
                 ELSE IF l.k \in DOMAIN doc.tools[tbl] THEN [doc EXCEPT !.ok = FALSE]
                      ELSE tomlParse(Tail(lines), tbl,
                                     [doc EXCEPT !.tools[tbl] = (l.k :> l.v) @@ @])

\* The object toml.parse returns (ok FALSE: it throws).
tomlData(lines) ==
  LET doc == tomlParse(lines, "", [ok |-> TRUE, top |-> EmptyObject, tools |-> EmptyObject])
  IN [ok |-> doc.ok,
      data |-> IF DOMAIN doc.tools = {} THEN doc.top
               ELSE ("tools" :> doc.tools) @@ doc.top]

dirname(d) == IF d = "/r/s" THEN "/r" ELSE "/"

join(d, name) == IF d = "/" THEN d \o name ELSE d \o "/" \o name

\* findUp('.git', {cwd, type}) followed by path.dirname: the nearest
\* directory at or above d whose .git is of the given type.
RECURSIVE findUp(_, _, _)
findUp(m, d, type) ==
  IF m[d] = type THEN d
  ELSE IF dirname(d) = d THEN NoDir
  ELSE findUp(m, dirname(d), type)

findGitRoot(m, cwd) ==
  IF findUp(m, cwd, "dir") # NoDir THEN findUp(m, cwd, "dir")
  ELSE findUp(m, cwd, "file")

\* The loop of findProjectConfigToml.
RECURSIVE walkUp(_, _, _)
walkUp(files, d, gitRoot) ==
  IF join(d, ".accountbox.toml") \in DOMAIN files THEN join(d, ".accountbox.toml")
  ELSE IF join(d, ".devbox.toml") \in DOMAIN files THEN join(d, ".devbox.toml")
  ELSE IF d = gitRoot THEN NoPath
  ELSE IF dirname(d) = d THEN NoPath
  ELSE walkUp(files, dirname(d), gitRoot)

findProjectConfigToml_noRootCheck(files, m, cwd) == walkUp(files, cwd, findGitRoot(m, cwd))

findProjectConfigToml(files, m, cwd) ==
  IF findGitRoot(m, cwd) = NoDir THEN NoPath
  ELSE walkUp(files, cwd, findGitRoot(m, cwd))

readProjectConfig(files, m, cwd) ==
  LET f == findProjectConfigToml(files, m, cwd)
  IN IF f = NoPath THEN [thrown |-> FALSE, file |-> NoPath, data |-> EmptyObject]
     ELSE [thrown |-> ~tomlData(files[f]).ok, file |-> f, data |-> tomlData(files[f]).data]

USER_TOOLS_TOML_DEFAULT == "~/.config/accountbox/tools.toml"

\* p is resolveUserToolsTomlPath(): the default path, or the legacy one when
\* only that exists.
readUserToolsConfig(files) ==
  LET p == IF USER_TOOLS_TOML_DEFAULT \in DOMAIN files THEN USER_TOOLS_TOML_DEFAULT
           ELSE IF "~/.accountbox/tools.toml" \in DOMAIN files THEN "~/.accountbox/tools.toml"
           ELSE USER_TOOLS_TOML_DEFAULT
  IN IF p \notin DOMAIN files THEN [thrown |-> FALSE, file |-> NoPath, data |-> EmptyObject]
     ELSE [thrown |-> ~tomlData(files[p]).ok, file |-> p, data |-> tomlData(files[p]).data]

resolveToolsForCwd(files, m, cwd) ==
  LET project == readProjectConfig(files, m, cwd)
      user == readUserToolsConfig(files)
  IN [thrown |-> project.thrown \/ user.thrown, project |-> project, user |-> user,
      mergedTools |-> mergeTools(project.data, user.data)]

toolKeyForDefaults_codexOnly(toolId) == "codex_account"

toolKeyForDefaults(toolId) == toolId \o "_account"


\* setProjectDefault: returns the file written and the new files, or throws.
setProjectDefault(files, m, tool, account, cwd) ==
  LET gitRoot == findGitRoot(m, cwd)
      f == join(gitRoot, ".accountbox.toml")
      key == tool \o "_account"
      lines == IF f \in DOMAIN files
               THEN files[f] \o <<[t |-> "blank", k |-> "", v |-> ""]>> ELSE <<>>
      matches(l) == l.t = "kv" /\ l.k = key
      replaced == \E i \in 1..Len(lines) : matches(lines[i])
      mapped == [i \in 1..Len(lines) |->
                   IF matches(lines[i]) THEN kv(key, account) ELSE lines[i]]
      pushed == IF replaced THEN mapped ELSE Append(mapped, kv(key, account))
      out == IF pushed[Len(pushed)].t = "blank" THEN SubSeq(pushed, 1, Len(pushed) - 1)
             ELSE pushed
  IN IF gitRoot = NoDir THEN [thrown |-> TRUE, file |-> NoPath, files |-> files]
     ELSE [thrown |-> FALSE, file |-> f, files |-> (f :> out) @@ files]

resolveAccountOrThrow_defaultFirst(passed, defaultsKey, config) ==
  IF defaultsKey \in DOMAIN config THEN [thrown |-> FALSE, account |-> config[defaultsKey]]
  ELSE IF passed # NoArg THEN [thrown |-> FALSE, account |-> passed]
  ELSE [thrown |-> TRUE, account |-> ""]

resolveAccountOrThrow(passed, defaultsKey, config) ==
  IF passed # NoArg THEN [thrown |-> FALSE, account |-> passed]
  ELSE IF defaultsKey \in DOMAIN config THEN [thrown |-> FALSE, account |-> config[defaultsKey]]
  ELSE [thrown |-> TRUE, account |-> ""]

CODEX_HELPER_SUBCOMMANDS ==
  {"app", "login", "logout", "status", "whoami", "limits", "rebuild", "list",
   "snapshots", "save", "switch", "use"}

\* The first tokens used here that start with a dash.
looksLikeOption(token) == token \in {"--model"}

disambiguateAccountArg_dropToken(account, args, knownSubcommands) ==
  LET accountIsSubcommand == account # NoArg /\ account \in knownSubcommands
      accountLooksLikeOption == looksLikeOption(account)
  IN [accountArg |-> IF accountIsSubcommand \/ accountLooksLikeOption
                     THEN NoArg ELSE account,
      argsList |-> args,
      accountIsSubcommand |-> accountIsSubcommand,
      accountLooksLikeOption |-> accountLooksLikeOption]

\* disambiguateAccountArg: a first token that is a known subcommand or looks
\* like an option is put back at the head of the arguments.
disambiguateAccountArg(account, args, knownSubcommands) ==
  LET accountIsSubcommand == account # NoArg /\ account \in knownSubcommands
      accountLooksLikeOption == looksLikeOption(account)
  IN IF accountIsSubcommand \/ accountLooksLikeOption
     THEN [accountArg |-> NoArg, argsList |-> <<account>> \o args,
           accountIsSubcommand |-> accountIsSubcommand,
           accountLooksLikeOption |-> accountLooksLikeOption]
     ELSE [accountArg |-> account, argsList |-> args,
           accountIsSubcommand |-> accountIsSubcommand,
           accountLooksLikeOption |-> accountLooksLikeOption]

\* dispatchCodex up to the call of the tool method: the resolved account and
\* the account the method is called with (app takes its own argument).
dispatchCodex(accountArg, argsList, accountIsSubcommand, projData) ==
  LET r == IF accountArg # NoArg
           THEN resolveAccountOrThrow(accountArg, "codex_account", projData)
           ELSE IF accountIsSubcommand
           THEN [thrown |-> FALSE,
                 account |-> IF "codex_account" \in DOMAIN projData
                             THEN projData["codex_account"] ELSE "default"]
           ELSE resolveAccountOrThrow(NoArg, "codex_account", projData)
      first == IF argsList = <<>> THEN "" ELSE argsList[1]
  IN [thrown |-> r.thrown, resolved |-> r.account,
      target |-> IF first = "app" /\ accountIsSubcommand /\ Len(argsList) >= 2
                 THEN argsList[2] ELSE r.account]

\* registry.getBuiltIn(id) is non-null for these ids.
BuiltIns == {"codex", "claude"}

\* The tool ids given on the command line.
CommandToolIds == {"codex", "claude", "t1", "t2"}

\* dispatchClaude up to the call of the tool method.
dispatchClaude(accountArg, accountIsSubcommand, accountLooksLikeOption, projData) ==
  IF accountArg # NoArg THEN resolveAccountOrThrow(accountArg, "claude_account", projData)
  ELSE IF accountIsSubcommand \/ accountLooksLikeOption
  THEN [thrown |-> FALSE,
        account |-> IF "claude_account" \in DOMAIN projData
                    THEN projData["claude_account"] ELSE "default"]
  ELSE resolveAccountOrThrow(NoArg, "claude_account", projData)

\* def.<k>, "" standing for undefined.
field(def, k) == IF k \in DOMAIN def THEN def[k] ELSE ""

dispatchConfiguredTool_noModeCheck(tools, toolId, accountArg, projData) ==
  IF toolId \notin DOMAIN tools THEN "unknown-tool"
  ELSE IF resolveAccountOrThrow(accountArg, toolKeyForDefaults(toolId), projData).thrown
  THEN "missing-account"
  ELSE ""

\* dispatchConfiguredTool after the lookup: "" when the runner is reached,
\* else the error thrown.
dispatchConfiguredTool(tools, toolId, accountArg, projData) ==
  IF toolId \notin DOMAIN tools THEN "unknown-tool"
  ELSE IF resolveAccountOrThrow(accountArg, toolKeyForDefaults(toolId), projData).thrown
  THEN "missing-account"
  ELSE LET def == tools[toolId]
           mode == IF field(def, "mode") = "" THEN "native" ELSE def["mode"]
       IN IF mode = "native"
          THEN IF field(def, "command") = "" THEN "missing-command" ELSE ""
          ELSE IF mode = "container"
          THEN IF field(def, "image") = "" THEN "missing-image" ELSE ""
          ELSE "unsupported-mode"

\* validateToolDef(toolId, def).errors is non-empty.
validateToolDef(def) ==
  LET mode == IF field(def, "mode") = "" THEN "native" ELSE def["mode"]
  IN \/ mode \notin {"native", "container"}
     \/ mode = "native" /\ field(def, "command") = ""
     \/ mode = "container" /\ field(def, "image") = ""

\* accountbox codex [account] [args...]
CodexCommand(account, args, cwd) ==
  /\ \E proj \in {readProjectConfig(tomlFiles, gitMarker, cwd)},
        d \in {disambiguateAccountArg(account, args, CODEX_HELPER_SUBCOMMANDS)} :
     LET r == dispatchCodex(d.accountArg, d.argsList, d.accountIsSubcommand, proj.data)
     IN cmd' = [NoCommand EXCEPT
                  !.op = "codex", !.tool = "codex", !.cwd = cwd,
                  !.account = account, !.args = args, !.kind = "built-in",
                  !.accountArg = d.accountArg, !.argsList = d.argsList,
                  !.ok = ~proj.thrown /\ ~r.thrown,
                  !.error = IF proj.thrown THEN "parse"
                            ELSE IF r.thrown THEN "missing-account" ELSE "",
                  !.resolved = IF proj.thrown THEN "" ELSE r.resolved,
                  !.target = IF proj.thrown THEN "" ELSE r.target]
  /\ UNCHANGED <<gitMarker, tomlFiles>>
  /\ UNCHANGED exceptProject

\* accountbox run <tool> [account]
RunCommand(toolId, account, cwd) ==
  /\ \E proj \in {readProjectConfig(tomlFiles, gitMarker, cwd)},
        user \in {readUserToolsConfig(tomlFiles)} :
     LET known == IF toolId = "codex" THEN CODEX_HELPER_SUBCOMMANDS ELSE {}
         d == disambiguateAccountArg(account, <<>>, known)
         builtin == IF toolId = "codex"
                    THEN LET r == dispatchCodex(d.accountArg, d.argsList,
                                                d.accountIsSubcommand, proj.data)
                         IN [thrown |-> r.thrown, account |-> r.target]
                    ELSE dispatchClaude(d.accountArg, d.accountIsSubcommand,
                                        d.accountLooksLikeOption, proj.data)
         err == dispatchConfiguredTool(dispatchTools(proj.data, user.data), toolId,
                                       d.accountArg, proj.data)
     IN IF toolId \in BuiltIns
        THEN cmd' = [NoCommand EXCEPT
                       !.op = "run", !.tool = toolId, !.cwd = cwd, !.account = account,
                       !.kind = "built-in",
                       !.ok = ~proj.thrown /\ ~builtin.thrown,
                       !.error = IF proj.thrown THEN "parse"
                                 ELSE IF builtin.thrown THEN "missing-account" ELSE "",
                       !.target = IF proj.thrown THEN "" ELSE builtin.account]
        ELSE cmd' = [NoCommand EXCEPT
                       !.op = "run", !.tool = toolId, !.cwd = cwd, !.account = account,
                       !.kind = "configured",
                       !.ok = ~proj.thrown /\ ~user.thrown /\ err = "",
                       !.error = IF proj.thrown \/ user.thrown THEN "parse" ELSE err]
  /\ UNCHANGED <<gitMarker, tomlFiles>>
  /\ UNCHANGED exceptProject

\* accountbox tools list: one line per id, "built-in" or the definition's mode.
ToolsList(cwd) ==
  /\ \E r \in {resolveToolsForCwd(tomlFiles, gitMarker, cwd)} :
     LET ids == DOMAIN r.mergedTools \cup BuiltIns
     IN cmd' = [NoCommand EXCEPT
                  !.op = "tools-list", !.cwd = cwd, !.ok = ~r.thrown,
                  !.error = IF r.thrown THEN "parse" ELSE "",
                  !.out = IF r.thrown THEN EmptyObject
                          ELSE [id \in ids |->
                                  IF id \in BuiltIns THEN "built-in"
                                  ELSE IF field(r.mergedTools[id], "mode") = "" THEN "native"
                                  ELSE r.mergedTools[id]["mode"]]]
  /\ UNCHANGED <<gitMarker, tomlFiles>>
  /\ UNCHANGED exceptProject

\* accountbox tools show <toolId>
ToolsShow(toolId, cwd) ==
  /\ \E r \in {resolveToolsForCwd(tomlFiles, gitMarker, cwd)} :
        IF toolId \in BuiltIns
        THEN cmd' = [NoCommand EXCEPT !.op = "tools-show", !.tool = toolId, !.cwd = cwd,
                                      !.ok = TRUE, !.kind = "built-in"]
        ELSE cmd' = [NoCommand EXCEPT
                       !.op = "tools-show", !.tool = toolId, !.cwd = cwd,
                       !.ok = ~r.thrown /\ toolId \in DOMAIN r.mergedTools,
                       !.error = IF r.thrown THEN "parse"
                                 ELSE IF toolId \in DOMAIN r.mergedTools THEN ""
                                 ELSE "unknown-tool",
                       !.kind = IF ~r.thrown /\ toolId \in DOMAIN r.mergedTools
                                THEN "configured" ELSE ""]
  /\ UNCHANGED <<gitMarker, tomlFiles>>
  /\ UNCHANGED exceptProject

\* accountbox tools validate: every configured id is validated; the exit code
\* is 1 when one of them has errors.
ToolsValidate(cwd) ==
  /\ \E r \in {resolveToolsForCwd(tomlFiles, gitMarker, cwd)} :
     LET bad == {id \in DOMAIN r.mergedTools : validateToolDef(r.mergedTools[id])}
     IN cmd' = [NoCommand EXCEPT
                  !.op = "tools-validate", !.cwd = cwd, !.ok = ~r.thrown,
                  !.error = IF r.thrown THEN "parse" ELSE "",
                  !.exitCode = IF r.thrown \/ bad # {} THEN 1 ELSE 0,
                  !.out = IF r.thrown THEN EmptyObject
                          ELSE [id \in DOMAIN r.mergedTools |->
                                  IF id \in bad THEN "error" ELSE "ok"]]
  /\ UNCHANGED <<gitMarker, tomlFiles>>
  /\ UNCHANGED exceptProject

\* accountbox resolve <toolId> --cwd <path> --json
ResolveCommand(toolId, cwd) ==
  /\ \E r \in {resolveToolsForCwd(tomlFiles, gitMarker, cwd)} :
     LET key == toolKeyForDefaults(toolId)
         known == toolId \in BuiltIns \/ toolId \in DOMAIN r.mergedTools
         account == field(r.project.data, key)
         afterSet == IF cmd.op = "set" /\ cmd.ok /\ cmd.tool = toolId /\ cmd.cwd = cwd
                     THEN cmd.target ELSE ""
     IN cmd' = [NoCommand EXCEPT
                  !.op = "resolve", !.tool = toolId, !.cwd = cwd, !.afterSet = afterSet,
                  !.ok = ~r.thrown /\ known /\ account # "",
                  !.error = IF r.thrown THEN "parse"
                            ELSE IF ~known THEN "unknown-tool"
                            ELSE IF account = "" THEN "no-default" ELSE "",
                  !.exitCode = IF ~r.thrown /\ known /\ account # "" THEN 0 ELSE 1,
                  !.resolved = IF ~r.thrown /\ known THEN account ELSE "",
                  !.file = IF ~r.thrown /\ known THEN r.project.file ELSE NoPath]
  /\ UNCHANGED <<gitMarker, tomlFiles>>
  /\ UNCHANGED exceptProject

\* accountbox set <tool> <account>, accountbox codex use <account>
SetCommand(tool, account, cwd) ==
  /\ \E r \in {setProjectDefault(tomlFiles, gitMarker, tool, account, cwd)} :
        /\ tomlFiles' = r.files
        /\ cmd' = [NoCommand EXCEPT
                     !.op = "set", !.tool = tool, !.cwd = cwd, !.target = account,
                     !.ok = ~r.thrown, !.error = IF r.thrown THEN "not-in-repo" ELSE "",
                     !.file = r.file]
  /\ UNCHANGED gitMarker
  /\ UNCHANGED exceptProject

\* Contents of the configuration files at the start.
Absent == <<[t |-> "absent", k |-> "", v |-> ""]>>

StartContents ==
  LET CfgK == <<kv("codex_account", "old")>>
      CfgKT == <<kv("codex_account", "old"), table("t1"), kv("command", "cmd")>>
      CfgT == <<table("t1"), kv("command", "cmd")>>
      CfgSub == <<kv("codex_account", "sub")>>
      CfgLegacy == <<kv("codex_account", "legacy")>>
      UserCfg ==
        <<kv("codex_account", "usr"), kv("t2_account", "usr"),
          table("t2"), kv("command", "cmd"), table("codex"), kv("command", "evil")>>
  IN [p \in {"/r/.accountbox.toml", "/r/.devbox.toml",
             "/r/s/.accountbox.toml", "/r/s/.devbox.toml", USER_TOOLS_TOML_DEFAULT} |->
        CASE p = "/r/.accountbox.toml" -> {Absent, CfgK, CfgKT, CfgT}
          [] p = "/r/s/.accountbox.toml" -> {Absent, CfgSub}
          [] p = USER_TOOLS_TOML_DEFAULT -> {Absent, UserCfg}
          [] OTHER -> {Absent, CfgLegacy}]

\* The directories commands are run in.
WorkDirs == {"/r", "/r/s"}

\* Any placement of .git markers below the filesystem root, any combination
\* of the starting files.
InitProject ==
  /\ LifecycleFresh
  /\ LimitsIdle
  /\ ConfigIdle
  /\ PortIdle
  /\ WhoamiIdle
  /\ gitMarker \in [Dirs -> {"none", "dir", "file"}]
  /\ gitMarker["/"] = "none"
  /\ \E c \in [DOMAIN StartContents -> UNION {StartContents[p] : p \in DOMAIN StartContents}] :
       /\ \A p \in DOMAIN StartContents : c[p] \in StartContents[p]
       /\ tomlFiles = [p \in {q \in DOMAIN StartContents : c[q] # Absent} |-> c[p]]
  /\ cmd = NoCommand

NextProject ==
  \/ \E toolId \in CommandToolIds, cwd \in WorkDirs : ResolveCommand(toolId, cwd)
  \/ \E tool \in {"codex", "t1"}, account \in {"work"}, cwd \in WorkDirs :
       SetCommand(tool, account, cwd)

SpecProject == InitProject /\ [][NextProject]_vars

\* A repository at /r, any combination of the canonical and user files.
InitDispatch ==
  /\ LifecycleFresh
  /\ LimitsIdle
  /\ ConfigIdle
  /\ PortIdle
  /\ WhoamiIdle
  /\ LET \* a user file with a table for a built-in id
         UserShadow == <<table("codex"), kv("mode", "bogus")>>
         \* user files whose tool tables do not validate
         UserInvalid ==
           {<<table("t1"), kv("isolate", "false"), table("t2"), kv("mode", "container")>>,
            <<table("t1"), kv("mode", "bogus"), table("t2"), kv("mode", "native")>>}
     IN \E c \in [DOMAIN StartContents -> UNION {StartContents[p] : p \in DOMAIN StartContents}
                                           \cup {UserShadow} \cup UserInvalid] :
       /\ \A p \in DOMAIN StartContents :
            c[p] \in StartContents[p]
                      \cup (IF p = USER_TOOLS_TOML_DEFAULT
                            THEN {UserShadow} \cup UserInvalid ELSE {})
       /\ tomlFiles = [p \in {q \in DOMAIN StartContents : c[q] # Absent} |-> c[p]]
  /\ cmd = NoCommand
  /\ gitMarker = [d \in Dirs |-> IF d = "/r" THEN "dir" ELSE "none"]
  /\ \A p \in DOMAIN tomlFiles : p \notin {"/r/.devbox.toml", "/r/s/.devbox.toml"}

NextDispatch ==
  \/ \E account \in {NoArg, "work", "limits", "app", "--model"},
        args \in {<<>>, <<"other">>}, cwd \in WorkDirs :
       CodexCommand(account, args, cwd)
  \/ \E toolId \in CommandToolIds, account \in {NoArg, "work", "--model"}, cwd \in WorkDirs :
       RunCommand(toolId, account, cwd)
  \/ \E cwd \in WorkDirs : ToolsList(cwd)
  \/ \E toolId \in CommandToolIds, cwd \in WorkDirs : ToolsShow(toolId, cwd)
  \/ \E cwd \in WorkDirs : ToolsValidate(cwd)

SpecDispatch == InitDispatch /\ [][NextDispatch]_vars

Next ==
  \/ \E a \in Accounts, method \in {"device", "browser"}, force \in BOOLEAN :
       \E portFree \in IF method = "browser" THEN BOOLEAN ELSE {TRUE} :
         LoginStart(a, method, force, portFree)
  \/ \E a \in Accounts, outcome \in {"written", "nofile", "failed"} :
       \E dockerUp \in IF outcome = "failed" THEN {TRUE} ELSE BOOLEAN :
         LoginFlow(a, outcome, dockerUp)
  \/ \E a \in Accounts, hasKey \in BOOLEAN :
       \E dockerUp \in IF hasKey THEN BOOLEAN ELSE {TRUE} :
         LoginApiKey(a, hasKey, dockerUp)
  \/ \E a \in Accounts, containerOk \in BOOLEAN : Logout(a, containerOk)
  \/ \E a \in Accounts, n \in SnapshotNames : Save(a, n)
  \/ \E b \in Accounts, n \in SnapshotNames :
       \E dockerUp \in IF exists(fs, codexSnapshotAuthPath(n)) THEN BOOLEAN ELSE {TRUE} :
         Switch(n, b, dockerUp)

Spec == Init /\ [][Next]_vars

\* ---------------------------------------------------------------------------
\* Properties
\* ---------------------------------------------------------------------------
Finished(a, opname) == pc[a] = "done" /\ cur[a].op = opname

hostAuthOf(a) == readFile(fs, codexHostAuthJsonPath(a))

\* C1: a device or browser login on an account without a host credential,
\* whose flow and sync succeed, leaves the host auth.json and the auth.json
\* of the account's volume byte-identical.
C1_LoginSyncIdentical ==
  \A a \in Accounts :
    (Finished(a, "login") /\ cur[a].method \in {"device", "browser"}
       /\ cur[a].pre = NoFile /\ cur[a].ok)
    => /\ exists(fs, codexHostAuthJsonPath(a))
       /\ vol[codexVolume(a)] = hostAuthOf(a)

C1_Witness ==
  \E a \in Accounts :
    /\ Finished(a, "login") /\ cur[a].method = "browser"
    /\ cur[a].pre = NoFile /\ cur[a].ok
    /\ hostAuthOf(a) = freshAuth(a, 1)

\* C2: a switch that applied snapshot n to account B leaves B's host
\* credential equal to the bytes the source account held when n was last
\* saved, whatever happened to the source account since.
C2_SwitchYieldsSavedBytes ==
  \A b \in Accounts :
    (Finished(b, "switch") /\ cur[b].applied)
    => /\ cur[b].expect # NoFile
       /\ hostAuthOf(b) = cur[b].expect

C2_Witness ==
  \E b \in Accounts :
    /\ Finished(b, "switch") /\ cur[b].applied
    /\ saved[cur[b].snap].from \notin {"", b}
    /\ saved[cur[b].snap].bytes = cur[b].expect
    /\ hostAuthOf(saved[cur[b].snap].from) # cur[b].expect

\* C3 (as claimed): two logouts in a row on one account never raise, and the
\* second reports no backup and changes nothing on the host.
C3_LogoutTwiceNeverRaises ==
  \A a \in Accounts :
    (Finished(a, "logout") /\ cur[a].afterLogout)
    => /\ cur[a].prevOk
       /\ cur[a].ok
       /\ cur[a].bak = ""
       /\ ~cur[a].hostChanged

\* C4 (as claimed): after any logout call the account has no active host
\* credential, and a credential that existed is in a logout backup.
C4_LogoutAlwaysMovesHost ==
  \A a \in Accounts :
    Finished(a, "logout")
    => /\ ~exists(fs, codexHostAuthJsonPath(a))
       /\ cur[a].pre # NoFile =>
            \E t \in Timestamps : readFile(fs, logoutBackupPath(a, t)) = cur[a].pre

\* C5: after a successful switch, the host credential and the volume
\* credential of the target account both equal the snapshot's content.
C5_SwitchSetsHostAndVolume ==
  \A b \in Accounts :
    (Finished(b, "switch") /\ cur[b].ok)
    => /\ cur[b].bytes # NoFile
       /\ hostAuthOf(b) = cur[b].bytes
       /\ vol[codexVolume(b)] = cur[b].bytes

C5_Witness ==
  \E b \in Accounts :
    /\ Finished(b, "switch") /\ cur[b].ok
    /\ cur[b].pre \notin {NoFile, cur[b].bytes}

\* C6: from the start of a force login on an account that had a host
\* credential, a .bak-<timestamp> file in the account directory holds the
\* previous bytes; before the flow has run the active file is gone (it was
\* renamed); this stays so whether the login succeeds or fails.
C6_ForceLoginKeepsBackup ==
  \A a \in Accounts :
    (cur[a].op = "login" /\ cur[a].force /\ cur[a].pre # NoFile)
    => /\ \E t \in Timestamps :
            readFile(fs, codexHostHome(a) \o "/auth.json.bak-" \o ToString(t)) = cur[a].pre
       /\ pc[a] = "login_flow" => ~exists(fs, codexHostAuthJsonPath(a))

C6_Witness ==
  \E a \in Accounts :
    /\ Finished(a, "login") /\ cur[a].force /\ cur[a].pre # NoFile
    /\ ~cur[a].ok

\* Whether the per-account fetch of a listed account fails, read off the
\* host file and the remote's behaviour.
fetchFails(a) ==
  \/ ~exists(fs, codexHostAuthJsonPath(a))
  \/ hostAuthOf(a) \in {GarbageAuth, NoTokenAuth, ApiKeyJson}
  \/ remote[a] # "ok"

\* C7: fetchAll never raises; it returns one row per listed account, the row
\* of an account is ok=false with an error string exactly when that account's
\* fetch fails, so k failing accounts give exactly k ok=false rows.
C7_FetchAllDemotesFailures ==
  /\ fstate # "raised"
  /\ fstate = "returned" =>
       /\ DOMAIN results = 0..(Len(accounts) - 1)
       /\ \A i \in DOMAIN results :
            /\ results[i].ok = ~fetchFails(accounts[i + 1])
            /\ ~results[i].ok => results[i].error # ""
       /\ Cardinality({i \in DOMAIN results : ~results[i].ok})
            = Cardinality({i \in 1..Len(accounts) : fetchFails(accounts[i])})

C7_Witness ==
  /\ fstate = "returned"
  /\ Len(accounts) = 3
  /\ Cardinality({i \in DOMAIN results : ~results[i].ok}) = 1
  /\ \E i \in DOMAIN results : remote[results[i].account] = "timeout"

\* C8: the returned array has one filled slot per listed account and slot i
\* carries the label of the i-th account, whatever the order of completion.
C8_ResultsOrderPreserving ==
  fstate = "returned" =>
    /\ DOMAIN results = 0..(Len(accounts) - 1)
    /\ \A i \in DOMAIN results :
         /\ results[i] # NoRow
         /\ results[i].account = accounts[i + 1]

C8_Witness ==
  /\ fstate = "returned"
  /\ Len(accounts) = 3
  /\ Len(wpc) = 2
  /\ order

\* C9 (as claimed): the single-account limits command never raises and
\* yields the record fetchAll yields for that account.
C9_SingleSameAsFetchAll ==
  single.account # "" =>
    /\ ~single.raised
    /\ fstate = "returned" =>
         \A i \in DOMAIN results :
           results[i].account = single.account =>
             results[i] = [account |-> single.account, ok |-> single.ok,
                           error |-> single.error, usage |-> single.usage]

\* C32: fetchAll starts min(concurrency, N) workers over one cursor; the
\* cursor only advances, a worker that claims takes the cursor's value and
\* moves the cursor by one, so no two fetches in flight have the same index,
\* every index below the cursor is in flight or has its row, and at the
\* return every index 0..N-1 has its row.
C32_SharedCursorClaimsEachIndexOnce ==
  [](fstate \in {"running", "returned"} =>
       /\ Len(wpc) = (IF concurrency < Len(accounts) THEN concurrency ELSE Len(accounts))
       /\ \A w \in DOMAIN wpc : wpc[w] = "fetch" =>
            /\ widx[w] < next /\ widx[w] < Len(accounts)
            /\ results[widx[w]] = NoRow
            /\ \A x \in DOMAIN wpc \ {w} : wpc[x] = "fetch" => widx[x] # widx[w]
       /\ \A i \in 0..(Len(accounts) - 1) :
            i < next => \/ results[i] # NoRow
                        \/ \E w \in DOMAIN wpc : wpc[w] = "fetch" /\ widx[w] = i
       /\ fstate = "returned" =>
            /\ next = Len(accounts) + Len(wpc)
            /\ \A i \in 0..(Len(accounts) - 1) : results[i] # NoRow)
  /\ [][/\ fstate # "init" => next' >= next
        /\ \A w \in DOMAIN wpc :
             (wpc[w] = "claim" /\ w \in DOMAIN wpc' /\ wpc'[w] # "claim") =>
               /\ next' = next + 1
               /\ wpc'[w] = "fetch" => (widx'[w] = next /\ next < Len(accounts))
               /\ wpc'[w] = "exited" => next >= Len(accounts)]_vars

\* Two workers over three accounts: one is still on index 0 while the other,
\* after index 1, is on index 2.
C32_Witness ==
  /\ fstate = "running" /\ concurrency = 2 /\ Len(accounts) = 3
  /\ \E w, x \in DOMAIN wpc :
       /\ wpc[w] = "fetch" /\ widx[w] = 2
       /\ wpc[x] = "fetch" /\ widx[x] = 0
  /\ results[1] # NoRow

\* C34: at every moment of a fetchAll run the number of fetches in flight is
\* at most min(concurrency, N).
C34_InFlightBounded ==
  fstate \in {"running", "returned"} =>
    /\ Cardinality({w \in DOMAIN wpc : wpc[w] = "fetch"}) <= concurrency
    /\ Cardinality({w \in DOMAIN wpc : wpc[w] = "fetch"}) <= Len(accounts)

\* Fewer workers than accounts, all of them fetching, with an account left
\* to claim.
C34_Witness ==
  /\ fstate = "running" /\ concurrency = 2 /\ Len(accounts) = 3
  /\ Cardinality({w \in DOMAIN wpc : wpc[w] = "fetch"}) = 2
  /\ next = 2

\* C35: a fetchAll run whose fetches all settle ends: every worker exits
\* and the call returns, for every number of accounts and every concurrency;
\* with no account it returns the empty list at once, with no worker and no
\* request.
C35_FetchAllTerminates ==
  /\ [](fstate # "init" /\ Len(accounts) = 0 =>
         fstate = "returned" /\ results = <<>> /\ wpc = <<>> /\ next = 0)
  /\ (fstate = "running") ~>
       (fstate = "returned" /\ \A w \in DOMAIN wpc : wpc[w] = "exited")

\* A returned run of three workers in which a request timed out.
C35_Witness ==
  /\ fstate = "returned" /\ concurrency = 3 /\ Len(accounts) = 3
  /\ \A w \in DOMAIN wpc : wpc[w] = "exited"
  /\ \E i \in DOMAIN results : results[i] # NoRow /\ remote[results[i].account] = "timeout"

\* C10: in the merged tool table an id defined by the project carries the
\* project's definition in full, an id defined by the user only carries the
\* user's definition, and no other id is present; the table
\* dispatchConfiguredTool looks the definition up in agrees.
C10_ProjectDefinitionWins ==
  LET u == toolsOf(userData)
      q == toolsOf(projectData)
      expected(id) == IF id \in DOMAIN q THEN q[id] ELSE u[id]
  IN /\ mergedTools.done =>
           /\ DOMAIN mergedTools.tools = DOMAIN u \cup DOMAIN q
           /\ \A id \in DOMAIN mergedTools.tools : mergedTools.tools[id] = expected(id)
     /\ dispatched.toolId # "" =>
           /\ dispatched.found = (dispatched.toolId \in DOMAIN u \cup DOMAIN q)
           /\ dispatched.found => dispatched.def = expected(dispatched.toolId)

C10_Witness ==
  /\ mergedTools.done
  /\ \E id \in DOMAIN toolsOf(userData) \cap DOMAIN toolsOf(projectData) :
       /\ DOMAIN toolsOf(userData)[id] \ DOMAIN toolsOf(projectData)[id] # {}
       /\ mergedTools.tools[id] = toolsOf(projectData)[id]
  /\ \E id \in DOMAIN toolsOf(userData) \ DOMAIN toolsOf(projectData) :
       mergedTools.tools[id] = toolsOf(userData)[id]

\* The project's default for a key, seen from a directory: the value of the
\* key's line with no table header above it in the project file ("" when
\* there is none).
projectDefault(cwd, key) ==
  LET topLevelValue(lines) ==
        IF \E i \in 1..Len(lines) :
             /\ lines[i].t = "kv" /\ lines[i].k = key
             /\ \A j \in 1..(i - 1) : lines[j].t # "table"
        THEN LET i == CHOOSE i \in 1..Len(lines) :
                        /\ lines[i].t = "kv" /\ lines[i].k = key
                        /\ \A j \in 1..(i - 1) : lines[j].t # "table"
             IN lines[i].v
        ELSE ""
  IN IF findProjectConfigToml(tomlFiles, gitMarker, cwd) = NoPath THEN ""
     ELSE topLevelValue(tomlFiles[findProjectConfigToml(tomlFiles, gitMarker, cwd)])

C12_ResolveReadsProjectDefault ==
  cmd.op = "resolve" =>
    LET value == projectDefault(cmd.cwd, cmd.tool \o "_account")
        projFile == findProjectConfigToml(tomlFiles, gitMarker, cmd.cwd)
        \* a [tools.<id>] table in the project file or in the user file
        configuredTool ==
          \/ /\ projFile # NoPath
             /\ table(cmd.tool) \in {tomlFiles[projFile][i] : i \in 1..Len(tomlFiles[projFile])}
          \/ /\ USER_TOOLS_TOML_DEFAULT \in DOMAIN tomlFiles
             /\ table(cmd.tool) \in {tomlFiles[USER_TOOLS_TOML_DEFAULT][i] :
                                       i \in 1..Len(tomlFiles[USER_TOOLS_TOML_DEFAULT])}
        known == cmd.tool \in BuiltIns \/ configuredTool
    IN /\ cmd.ok = (known /\ value # "")
       /\ cmd.ok => cmd.resolved = value
       /\ ~known => cmd.error = "unknown-tool"
       /\ (known /\ value = "") => cmd.error = "no-default"

C12_Witness ==
  /\ cmd.op = "resolve" /\ cmd.tool = "codex" /\ cmd.ok
  /\ cmd.resolved = "old"
  /\ USER_TOOLS_TOML_DEFAULT \notin DOMAIN tomlFiles

\* C13 (as claimed): a resolve that follows a successful set of the same
\* tool from the same directory yields the account that was set (the tool
\* being one resolve knows: built-in or configured).
C13_SetThenResolve ==
  (cmd.op = "resolve" /\ cmd.afterSet # "" /\ cmd.error # "unknown-tool")
    => /\ cmd.ok
       /\ cmd.resolved = cmd.afterSet

\* C16 (as claimed): a configured definition whose id is codex or claude
\* never takes effect in run, tools list, tools show and tools validate.
C16_BuiltInsShadowConfigured ==
  /\ (cmd.op = "run" /\ cmd.tool \in BuiltIns) => cmd.kind = "built-in"
  /\ (cmd.op = "tools-list" /\ cmd.ok) => \A id \in BuiltIns : cmd.out[id] = "built-in"
  /\ (cmd.op = "tools-show" /\ cmd.tool \in BuiltIns) => cmd.ok /\ cmd.kind = "built-in"
  /\ (cmd.op = "tools-validate" /\ cmd.ok) =>
       /\ \A id \in BuiltIns \cap DOMAIN cmd.out : cmd.out[id] = "ok"
       /\ cmd.exitCode = 1 => \E id \in DOMAIN cmd.out \ BuiltIns : cmd.out[id] = "error"

\* The config file discovery would return from cwd when its stop point is the
\* nearest directory, at or above cwd, of the first of the given sets that has
\* one there: the nearest directory from cwd up to the stop point that holds
\* a config file. With no stop point the walk goes to the filesystem root
\* when rootFallback holds and finds nothing otherwise.
nearestConfig(cwd, stopSets, rootFallback) ==
  LET depth(d) == CASE d = "/" -> 0 [] d = "/r" -> 1 [] OTHER -> 2
      upward == {d \in Dirs : depth(d) <= depth(cwd)}
      nearest(S) == CHOOSE d \in S : \A e \in S : depth(e) <= depth(d)
      usable == {i \in DOMAIN stopSets : stopSets[i] \cap upward # {}}
      first == CHOOSE i \in usable : \A j \in usable : i <= j
      stop == IF usable = {} THEN "/" ELSE nearest(stopSets[first] \cap upward)
      configOf(d) ==
        IF join(d, ".accountbox.toml") \in DOMAIN tomlFiles
        THEN join(d, ".accountbox.toml")
        ELSE IF join(d, ".devbox.toml") \in DOMAIN tomlFiles
             THEN join(d, ".devbox.toml")
             ELSE NoPath
      S == {d \in upward : depth(d) >= depth(stop) /\ configOf(d) # NoPath}
  IN IF (usable = {} /\ ~rootFallback) \/ S = {} THEN NoPath ELSE configOf(nearest(S))

codexWhoami(f, account) ==
  IF ~exists(f, codexHostAuthJsonPath(account))
  THEN [thrown |-> TRUE, error |-> "no-host-auth", shows |-> NoFile]
  ELSE IF ~parseAuth(f[codexHostAuthJsonPath(account)]).parsed
       THEN [thrown |-> TRUE, error |-> "parse", shows |-> NoFile]
       ELSE [thrown |-> FALSE, error |-> "", shows |-> f[codexHostAuthJsonPath(account)]]

\* C14: after a successful api-key login on an account the credentials are
\* in the account's volume only: no host auth.json exists for the account
\* and whoami on it fails with the guidance error.
C14_ApiKeyLeavesNoHostArtifact ==
  \A a \in Accounts :
    (Finished(a, "login") /\ cur[a].method = "api-key" /\ cur[a].ok)
    => /\ vol[codexVolume(a)] = "apikey-auth"
       /\ ~exists(fs, codexHostAuthJsonPath(a))
       /\ codexWhoami(fs, a).error = "no-host-auth"

listDockerContainersUsingHostPort(psOk, rows) == IF psOk THEN rows ELSE <<>>

canBindTcpPort_onlyAddrInUse(err) == err # "EADDRINUSE"

\* canBindTcpPort: true from the close callback of a server that listened,
\* false from the error handler whatever the error code.
canBindTcpPort(err) ==
  IF err = "" THEN TRUE
  ELSE IF err = "EADDRINUSE" THEN FALSE ELSE FALSE

details_firstOnly(containers) == {containers[1]}

\* The containers the "already published" error message lists.
details(containers) == {containers[i] : i \in DOMAIN containers}

\* ensureCodexLoginPortFree up to its first docker stop or its bind probe.
PortGuardStart(psOk, rows) ==
  /\ guard.pc \in {"idle", "returned", "raised"}
  /\ calls < MaxCalls
  /\ calls' = calls + 1
  /\ LET containers == listDockerContainersUsingHostPort(psOk, rows)
         g == [NoGuard EXCEPT !.psOk = psOk, !.before = running,
                              !.containers = containers]
     IN guard' =
          IF Len(containers) > 0
          THEN IF autoStop
               THEN [g EXCEPT !.pc = "stopping", !.i = 1]
               ELSE [g EXCEPT !.pc = "raised", !.error = "published",
                              !.listed = details(containers), !.hint = TRUE]
          ELSE [g EXCEPT !.pc = "probe"]
  /\ UNCHANGED <<running, autoStop, listener, flow>>
  /\ UNCHANGED exceptPort

\* One turn of the auto-stop loop: docker stop <id>, which execa rejects on
\* a non-zero exit; after the last one the guard returns.
DockerStop(ok) ==
  /\ guard.pc = "stopping"
  /\ LET id == guard.containers[guard.i]
     IN IF ok
        THEN /\ running' = running \ {id}
             /\ guard' = [guard EXCEPT
                            !.stopped = @ \cup {id},
                            !.i = @ + 1,
                            !.pc = IF guard.i = Len(guard.containers)
                                   THEN "returned" ELSE "stopping"]
        ELSE /\ running' = running
             /\ guard' = [guard EXCEPT !.pc = "raised", !.error = "stop-failed"]
  /\ UNCHANGED <<autoStop, listener, calls, flow>>
  /\ UNCHANGED exceptPort

\* canBindTcpPort up to the listen callback or the error handler.
BindProbe(err) ==
  /\ guard.pc = "probe"
  /\ IF err = ""
     THEN /\ listener' = listener \cup {"probe"}
          /\ guard' = [guard EXCEPT !.pc = "closing", !.probed = TRUE, !.bound = TRUE]
     ELSE /\ listener' = listener
          /\ guard' = IF canBindTcpPort(err)
                      THEN [guard EXCEPT !.pc = "returned", !.probed = TRUE,
                                         !.bindError = err]
                      ELSE [guard EXCEPT !.pc = "raised", !.probed = TRUE,
                                         !.bindError = err, !.error = "in-use"]
  /\ UNCHANGED <<running, autoStop, calls, flow>>
  /\ UNCHANGED exceptPort

\* server.close(() => resolve(true)): the promise settles once the probe
\* listener is gone.
ProbeClose ==
  /\ guard.pc = "closing"
  /\ listener' = listener \ {"probe"}
  /\ guard' = IF canBindTcpPort("")
              THEN [guard EXCEPT !.pc = "returned", !.released = TRUE]
              ELSE [guard EXCEPT !.pc = "raised", !.released = TRUE, !.error = "in-use"]
  /\ UNCHANGED <<running, autoStop, calls, flow>>
  /\ UNCHANGED exceptPort

InitPort ==
  /\ LifecycleFresh
  /\ LimitsIdle
  /\ ConfigIdle
  /\ ProjectIdle
  /\ WhoamiIdle
  /\ running \in SUBSET {"c1", "c2", "c3"}
  /\ autoStop \in BOOLEAN
  /\ listener \in {{}, {"other"}}
  /\ guard = NoGuard
  /\ calls = 0
  /\ flow = NoFlow

NextPort ==
  \/ \E psOk \in BOOLEAN :
       \E rows \in IF psOk THEN Orderings(running) ELSE {<<>>} :
         PortGuardStart(psOk, rows)
  \/ \E ok \in BOOLEAN : DockerStop(ok)
  \* a bind of 127.0.0.1:port meets EADDRINUSE while another process listens
  \* there; with a published container the outcome depends on how docker
  \* publishes (userland proxy or not)
  \/ \E err \in IF "other" \in listener THEN {"EADDRINUSE"}
                 ELSE IF running # {} THEN {"", "EADDRINUSE", "EACCES"}
                 ELSE {"", "EACCES"} :
       BindProbe(err)
  \/ ProbeClose

SpecPort == InitPort /\ [][NextPort]_vars

\* C18 as claimed: with running containers publishing the port, a finished
\* ensureCodexLoginPortFree has stopped every one of them when the opt-in is
\* set, and otherwise has stopped none and failed with an error listing each
\* of them and the hint.
C18_StopAllOrFailListing ==
  (guard.pc \in {"returned", "raised"} /\ guard.before # {})
  => IF autoStop
     THEN guard.pc = "returned" /\ running \cap guard.before = {}
     ELSE /\ guard.pc = "raised" /\ guard.error = "published"
          /\ running = guard.before
          /\ guard.listed = guard.before /\ guard.hint

\* C18 amended: when docker ps reports the containers, the opt-in stops
\* them in listing order and returns without a bind probe once every stop
\* succeeded, raising at the first stop that fails with the later ones still
\* running; without the opt-in none is stopped and the error lists each of
\* them and the hint; when docker ps fails none is stopped and the bind
\* probe decides.
C18_StopInOrderOrFailListing ==
  (guard.pc \in {"returned", "raised"} /\ guard.before # {})
  => IF ~guard.psOk
     THEN /\ running = guard.before /\ guard.stopped = {}
          /\ guard.probed /\ guard.listed = {}
          /\ guard.pc = "returned" <=> guard.bound
     ELSE IF autoStop
     THEN /\ ~guard.probed
          /\ running = guard.before \ guard.stopped
          /\ guard.pc = "returned" => guard.stopped = guard.before
          /\ guard.pc = "raised" =>
                /\ guard.error = "stop-failed"
                /\ guard.stopped = {guard.containers[j] : j \in 1..(guard.i - 1)}
                /\ guard.containers[guard.i] \in running
     ELSE /\ guard.pc = "raised" /\ guard.error = "published"
          /\ running = guard.before /\ guard.stopped = {}
          /\ guard.listed = guard.before /\ guard.hint

\* The opt-in is set, three containers were listed, the first was stopped
\* and the stop of the second failed.
C18_Witness ==
  /\ guard.pc = "raised" /\ autoStop /\ guard.psOk
  /\ Cardinality(guard.before) = 3
  /\ Cardinality(guard.stopped) = 1
  /\ Cardinality(running) = 2

\* C19: with no running container publishing the port, a finished
\* ensureCodexLoginPortFree has returned exactly when the loopback bind
\* succeeded, has failed as "in use" on every bind error, and holds no probe
\* listener once it has returned.
C19_SucceedsIffBindSucceeds ==
  /\ (guard.pc \in {"returned", "raised"} /\ guard.before = {})
     => /\ guard.probed
        /\ guard.pc = "returned" <=> guard.bound
        /\ guard.pc = "returned" => guard.released /\ "probe" \notin listener
        /\ guard.pc = "raised" => guard.error = "in-use" /\ guard.bindError \in {"EADDRINUSE", "EACCES"}
  /\ "probe" \in listener => guard.pc = "closing"

\* No container published the port, the bind succeeded and the probe
\* listener was closed before the guard returned.
C19_Witness ==
  /\ guard.pc = "returned" /\ guard.before = {}
  /\ guard.bound /\ guard.released /\ listener = {}

\* ---------------------------------------------------------------------------
\* whoami and its masking (codexWhoami, util/format.js)
\* ---------------------------------------------------------------------------
\* Strings are sequences of characters; the empty one stands for a field
\* that is absent from the JSON (or not a string).
NoValue == <<>>

\* An opaque value of n characters that starts with the given character.
opaque(first, n) ==
  [i \in 1..n |-> IF i = 1 THEN first ELSE ToString((i - 2) % 10)]

indexOf(str, ch) ==
  IF \E i \in 1..Len(str) : str[i] = ch
  THEN CHOOSE i \in 1..Len(str) : str[i] = ch /\ \A j \in 1..(i - 1) : str[j] # ch
  ELSE 0

maskEmail_keepLast(email) ==
  IF email = NoValue THEN NoValue
  ELSE LET at == indexOf(email, "@")
           local == SubSeq(email, 1, at - 1)
           domain == SubSeq(email, at + 1, Len(email))
       IN IF at = 0 THEN <<email[1], "...", email[Len(email)]>>
          ELSE <<local[1], "...", local[Len(local)], "@">> \o domain

\* maskEmail: first and last character of the local part, the whole domain.
maskEmail(email) ==
  IF email = NoValue THEN NoValue
  ELSE LET at == indexOf(email, "@")
           local == SubSeq(email, 1, at - 1)
           domain == SubSeq(email, at + 1, Len(email))
           short(x) == IF Len(x) <= 2 THEN <<x[1], "...">>
                       ELSE <<x[1], "...", x[Len(x)]>>
       IN IF at = 0 THEN short(email)
          ELSE short(local) \o <<"@">> \o domain

\* maskId: a prefix of max(4, keep) characters and the ellipsis; an id no
\* longer than that is returned as it is.
maskId(id, keep) ==
  IF id = NoValue THEN NoValue
  ELSE LET n == IF keep > 4 THEN keep ELSE 4
       IN IF Len(id) <= n THEN id ELSE SubSeq(id, 1, n) \o <<"...">>

\* Payloads of the id token: email, subject and plan type, each possibly
\* absent.
Payloads ==
  [email : {NoValue, <<"a", "b", "c", "@", "x">>, <<"a", "b", "@", "x">>, <<"a", "@", "x">>,
            <<"r", "o", "s", "h", "a", "n", "@",
              "e", "x", "a", "m", "p", "l", "e", ".", "c", "o", "m">>},
   sub : {NoValue, opaque("u", 5), opaque("u", 20)},
   plan : {NoValue, <<"p", "l", "u", "s">>}]

\* The base64url text of a payload: an injective code over the payloads.
base64url(payload) ==
  <<"e", ToString(Len(payload.email)), "s", ToString(Len(payload.sub)),
    "p", ToString(Len(payload.plan))>>

\* decodeJwtPayload: the second dot-separated part, decoded and parsed;
\* null when there is no second part or it does not decode.
decodeJwtPayload(jwt) ==
  LET dot1 == indexOf(jwt, ".")
      rest == SubSeq(jwt, dot1 + 1, Len(jwt))
      dot2 == indexOf(rest, ".")
      part == IF dot2 = 0 THEN rest ELSE SubSeq(rest, 1, dot2 - 1)
      NullPayload == [email |-> NoValue, sub |-> NoValue, plan |-> NoValue]
  IN IF jwt = NoValue \/ dot1 = 0 THEN NullPayload
     ELSE IF \E q \in Payloads : base64url(q) = part
          THEN CHOOSE q \in Payloads : base64url(q) = part
          ELSE NullPayload

\* The console.log calls of codexWhoami for a parsed auth.json.
whoamiLines(account, obj) ==
  LET line(label, value) == [label |-> label, value |-> value]
      payload == decodeJwtPayload(obj.tokens.id_token)
      emailMasked == maskEmail(payload.email)
      sub == payload.sub
      accountId == obj.tokens.account_id
  IN <<line("Account label", <<account>>)>>
     \o (IF obj.auth_mode # NoValue THEN <<line("Auth mode", obj.auth_mode)>> ELSE <<>>)
     \o (IF emailMasked # NoValue THEN <<line("Email", emailMasked)>> ELSE <<>>)
     \o (IF sub # NoValue THEN <<line("Subject", maskId(sub, 18))>> ELSE <<>>)
     \o (IF accountId # NoValue
         THEN <<line("Account ID", maskId(accountId, 12))>> ELSE <<>>)
     \o (IF payload.plan # NoValue THEN <<line("ChatGPT plan", payload.plan)>> ELSE <<>>)
     \o <<line("Auth file", <<codexHostAuthJsonPath(account)>>)>>

\* whoami on an account: throws when the host auth.json is absent or is not
\* JSON, prints the lines otherwise.
Whoami(account) ==
  /\ ~printed.done
  /\ printed' =
       IF ~authJson.present \/ ~authJson.parsed
       THEN [done |-> TRUE, thrown |-> TRUE, lines |-> <<>>]
       ELSE [done |-> TRUE, thrown |-> FALSE, lines |-> whoamiLines(account, authJson)]
  /\ UNCHANGED authJson
  /\ UNCHANGED <<lifecycleVars, limitsVars, configVars, projectVars, portVars>>

\* The auth.json documents that parse: an id token is absent, not a JWT, or
\* header, payload and signature joined by dots.
InitWhoami ==
  /\ LifecycleFresh
  /\ LimitsIdle
  /\ ConfigIdle
  /\ ProjectIdle
  /\ PortIdle
  /\ authJson \in
       {[present |-> FALSE], [present |-> TRUE, parsed |-> FALSE]} \cup
       [present : {TRUE}, parsed : {TRUE},
        auth_mode : {NoValue, <<"chatgpt">>},
        tokens :
          [access_token : {opaque("A", 14)},
           id_token : {NoValue, <<"n", "o", "j", "w", "t">>}
                        \cup {<<"h", ".">> \o base64url(q) \o <<".", "g">> : q \in Payloads},
           refresh_token : {opaque("R", 14)},
           account_id : {NoValue, <<"4", "2">>, opaque("a", 12), opaque("a", 13),
                         opaque("a", 36)}]]
  /\ printed = [done |-> FALSE, thrown |-> FALSE, lines |-> <<>>]

NextWhoami == \E account \in Accounts : Whoami(account)

SpecWhoami == InitWhoami /\ [][NextWhoami]_vars

\* C20: no line whoami prints holds the full raw value of a token-material
\* field of the host credential (access token, id token, refresh token,
\* account id).
C20_NoRawTokenMaterial ==
  (printed.done /\ ~printed.thrown)
  => LET contains(text, value) ==
           \E i \in 1..(Len(text) - Len(value) + 1) :
             SubSeq(text, i, i + Len(value) - 1) = value
         tokenMaterial ==
           {authJson.tokens[k] :
              k \in {"access_token", "id_token", "refresh_token", "account_id"}}
             \ {NoValue}
     IN \A v \in tokenMaterial :
          \A i \in DOMAIN printed.lines : ~contains(printed.lines[i].value, v)

\* C21 (as claimed): for every email local@domain the masked value is the
\* first character of the local part, the ellipsis, the last character of
\* the local part, then @ and the whole domain.
C21_MaskKeepsFirstAndLast ==
  (printed.done /\ ~printed.thrown) =>
    LET email == decodeJwtPayload(authJson.tokens.id_token).email
        at == indexOf(email, "@")
        local == SubSeq(email, 1, at - 1)
        domain == SubSeq(email, at + 1, Len(email))
    IN at > 1 =>
         \E i \in DOMAIN printed.lines :
           /\ printed.lines[i].label = "Email"
           /\ printed.lines[i].value = <<local[1], "...", local[Len(local)], "@">> \o domain

\* C21 (amended): a local part of three or more characters is masked to its
\* first character, the ellipsis and its last character; a local part of
\* one or two characters to its first character and the ellipsis; @ and the
\* whole domain follow in both cases.
C21_MaskByLocalLength ==
  (printed.done /\ ~printed.thrown) =>
    LET email == decodeJwtPayload(authJson.tokens.id_token).email
        at == indexOf(email, "@")
        local == SubSeq(email, 1, at - 1)
        domain == SubSeq(email, at + 1, Len(email))
    IN at > 1 =>
         \E i \in DOMAIN printed.lines :
           /\ printed.lines[i].label = "Email"
           /\ printed.lines[i].value =
                IF Len(local) >= 3
                THEN <<local[1], "...", local[Len(local)], "@">> \o domain
                ELSE <<local[1], "...", "@">> \o domain

\* whoami printed r...n@example.com for roshan@example.com.
C21_Witness ==
  /\ printed.done /\ ~printed.thrown
  /\ Len(decodeJwtPayload(authJson.tokens.id_token).email) = 18
  /\ \E i \in DOMAIN printed.lines :
       /\ printed.lines[i].label = "Email"
       /\ printed.lines[i].value =
            <<"r", "...", "n", "@", "e", "x", "a", "m", "p", "l", "e", ".", "c", "o", "m">>
\* ---------------------------------------------------------------------------
\* Failed switch and save, backups, the port guard of login
\* ---------------------------------------------------------------------------
\* C23: a switch whose snapshot does not exist fails with an error that names
\* the snapshot's auth.json path and changes nothing: no directory is
\* created, no host file, volume or snapshot is modified.
C23_SwitchMissingSnapshot ==
  \A b \in Accounts :
    (pc[b] = "done" /\ cur[b].op = "switch" /\ cur[b].bytes = NoFile)
      => /\ ~cur[b].ok /\ ~cur[b].applied
         /\ cur[b].error = codexSnapshotAuthPath(cur[b].snap)
         /\ ~cur[b].hostChanged

\* A switch to an account that has no directory yet, from a snapshot name
\* that was never saved.
C23_Witness ==
  /\ pc["B"] = "done" /\ cur["B"].op = "switch" /\ cur["B"].snap = "s2"
  /\ cur["B"].bytes = NoFile /\ ~cur["B"].ok
  /\ codexHostHome("B") \notin dirs

\* C24: a save from an account without a host auth.json fails with an error
\* that names that path, writes no file, and leaves the snapshots listing as
\* it was.
C24_SaveWithoutCredential ==
  \A a \in Accounts :
    (pc[a] = "done" /\ cur[a].op = "save" /\ cur[a].pre = NoFile)
      => /\ ~cur[a].ok
         /\ cur[a].error = codexHostAuthJsonPath(a)
         /\ ~cur[a].hostChanged /\ ~cur[a].listChanged
         /\ ~exists(fs, codexSnapshotAuthPath(cur[a].snap))
              \/ saved[cur[a].snap].from # ""

\* The first save ever, from an account without a credential: the snapshots
\* directory now exists and the listing is still empty.
C24_Witness ==
  /\ pc["B"] = "done" /\ cur["B"].op = "save" /\ ~cur["B"].ok
  /\ cur["B"].pre = NoFile
  /\ codexSnapshotsDir \in dirs
  /\ listCodexSnapshots(fs, dirs) = <<>>

\* C28 (as claimed): the command that brings an account's host directory to
\* hold auth.json beside a timestamped backup of it is a force login.
C28_TwoFilesOnlyByForceLogin ==
  \A a \in Accounts :
    LET backup == \E t \in Timestamps :
                    exists(fs, loginBackupPath(a, t)) \/ exists(fs, logoutBackupPath(a, t))
        two == exists(fs, codexHostAuthJsonPath(a)) /\ backup
        twoBefore == cur[a].pre # NoFile /\ cur[a].hadBackup
    IN (two /\ ~twoBefore) => (cur[a].op = "login" /\ cur[a].force)

\* C28 (amended): a first backup appears in an account's host directory only
\* by a force login (auth.json.bak-<ts>) or a logout
\* (auth.json.logout-bak-<ts>), which move auth.json away; auth.json comes to
\* stand beside a backup only by a login or a switch, and without force only
\* beside a backup that was there before the command.
C28_BackupsAndActiveFile ==
  \A a \in Accounts :
    LET loginBackup == \E t \in Timestamps : exists(fs, loginBackupPath(a, t))
        logoutBackup == \E t \in Timestamps : exists(fs, logoutBackupPath(a, t))
        two == exists(fs, codexHostAuthJsonPath(a)) /\ (loginBackup \/ logoutBackup)
        twoBefore == cur[a].pre # NoFile /\ cur[a].hadBackup
    IN /\ (loginBackup /\ ~cur[a].hadBackup) => (cur[a].op = "login" /\ cur[a].force)
       /\ (logoutBackup /\ ~cur[a].hadBackup) => cur[a].op = "logout"
       /\ (two /\ ~twoBefore) =>
            /\ cur[a].op \in {"login", "switch"}
            /\ (cur[a].op = "login" /\ cur[a].force) \/ cur[a].hadBackup

\* A login without force after a logout: auth.json beside the logout backup.
C28_Witness ==
  /\ pc["a"] = "done" /\ cur["a"].op = "login" /\ ~cur["a"].force /\ cur["a"].ok
  /\ exists(fs, codexHostAuthJsonPath("a"))
  /\ \E t \in Timestamps : exists(fs, logoutBackupPath("a", t))
  /\ \A t \in Timestamps : ~exists(fs, loginBackupPath("a", t))

\* ---------------------------------------------------------------------------
\* Dispatch of a configured tool whose definition does not validate
\* ---------------------------------------------------------------------------
\* C27 (as claimed): run of a configured tool reaches no runner and fails
\* with the configuration error of its case (native or no mode without
\* command, container without image, any other mode); an id in neither file
\* fails as unknown.
C27_InvalidDefinitionFailsAsConfigError ==
  (cmd.op = "run" /\ cmd.kind = "configured" /\ cmd.error # "parse") =>
    LET tools == dispatchTools(readProjectConfig(tomlFiles, gitMarker, cmd.cwd).data,
                               readUserToolsConfig(tomlFiles).data)
        def == tools[cmd.tool]
        mode == field(def, "mode")
        expected ==
          IF mode \in {"", "native"}
          THEN (IF field(def, "command") = "" THEN "missing-command" ELSE "")
          ELSE IF mode = "container"
          THEN (IF field(def, "image") = "" THEN "missing-image" ELSE "")
          ELSE "unsupported-mode"
    IN IF cmd.tool \notin DOMAIN tools
       THEN ~cmd.ok /\ cmd.error = "unknown-tool"
       ELSE expected # "" => (~cmd.ok /\ cmd.error = expected)

\* C27 (amended): such a run reaches no runner in any of these cases; the
\* error is the configuration error of the case when an account resolves
\* (given on the command line or as the project's <tool>_account) and the
\* missing-account error when none does; an id in neither file fails as
\* unknown whether or not an account is given.
C27_AccountResolvedBeforeModeCheck ==
  (cmd.op = "run" /\ cmd.kind = "configured" /\ cmd.error # "parse") =>
    LET proj == readProjectConfig(tomlFiles, gitMarker, cmd.cwd).data
        tools == dispatchTools(proj, readUserToolsConfig(tomlFiles).data)
        def == tools[cmd.tool]
        mode == field(def, "mode")
        expected ==
          IF mode \in {"", "native"}
          THEN (IF field(def, "command") = "" THEN "missing-command" ELSE "")
          ELSE IF mode = "container"
          THEN (IF field(def, "image") = "" THEN "missing-image" ELSE "")
          ELSE "unsupported-mode"
        given == cmd.account # NoArg /\ ~looksLikeOption(cmd.account)
        hasAccount == given \/ (cmd.tool \o "_account") \in DOMAIN proj
    IN IF cmd.tool \notin DOMAIN tools
       THEN ~cmd.ok /\ cmd.error = "unknown-tool"
       ELSE expected # "" =>
              /\ ~cmd.ok
              /\ cmd.error = IF hasAccount THEN expected ELSE "missing-account"

\* A run of a tool whose table has mode = "container" and no image, with an
\* account on the command line.
C27_Witness ==
  /\ cmd.op = "run" /\ cmd.tool = "t2" /\ cmd.account = "work"
  /\ ~cmd.ok /\ cmd.error = "missing-image"
\* ---------------------------------------------------------------------------
\* Commands that only look: status, run, whoami, limits, list, snapshots
\* ---------------------------------------------------------------------------
codexLoginStatus_reject(dockerUp, exitCode) ==
  IF ~dockerUp THEN [thrown |-> TRUE, error |-> "docker", exitCode |-> 0]
  ELSE IF exitCode # 0 THEN [thrown |-> TRUE, error |-> "exit-code", exitCode |-> exitCode]
  ELSE [thrown |-> FALSE, error |-> "", exitCode |-> 0]

\* codexLoginStatus: ensureCodexImage, which throws when docker ps or the
\* build fails, then login status in the container with reject: false; the
\* exit code is the result.
codexLoginStatus(dockerUp, exitCode) ==
  IF ~dockerUp THEN [thrown |-> TRUE, error |-> "docker", exitCode |-> 0]
  ELSE [thrown |-> FALSE, error |-> "", exitCode |-> exitCode]

CodexStatus_hostLogout(account, dockerUp, exitCode) ==
  /\ cmd.op = "none"
  /\ \E r \in {codexLoginStatus(dockerUp, exitCode)} :
       /\ cmd' = [NoCommand EXCEPT !.op = "status", !.account = account, !.ok = ~r.thrown,
                                   !.error = r.error, !.exitCode = r.exitCode]
       /\ fs' = IF ~r.thrown /\ r.exitCode # 0 THEN codexHostLogout(fs, account, 0).fs ELSE fs
  /\ UNCHANGED <<dirs, vol, issued, pc, cur, saved, nops, gitMarker, tomlFiles>>
  /\ UNCHANGED <<limitsVars, configVars, portVars, whoamiVars>>

\* codex <account> status
CodexStatus(account, dockerUp, exitCode) ==
  /\ cmd.op = "none"
  /\ \E r \in {codexLoginStatus(dockerUp, exitCode)} :
       cmd' = [NoCommand EXCEPT !.op = "status", !.account = account, !.ok = ~r.thrown,
                                !.error = r.error, !.exitCode = r.exitCode]
  /\ UNCHANGED <<gitMarker, tomlFiles>>
  /\ UNCHANGED exceptProject

\* codex <account> [args...]: runCodexInContainer, where execa rejects on a
\* non-zero exit of the container.
CodexRun(account, dockerUp, exitCode) ==
  /\ cmd.op = "none"
  /\ cmd' = [NoCommand EXCEPT
               !.op = "codex-run", !.account = account,
               !.ok = (dockerUp /\ exitCode = 0),
               !.error = IF ~dockerUp THEN "docker"
                         ELSE IF exitCode # 0 THEN "exit-code" ELSE "",
               !.exitCode = IF dockerUp THEN exitCode ELSE 0]
  /\ UNCHANGED <<gitMarker, tomlFiles>>
  /\ UNCHANGED exceptProject

\* codex <account> whoami
CodexWhoami(account) ==
  /\ cmd.op = "none"
  /\ \E r \in {codexWhoami(fs, account)} :
       cmd' = [NoCommand EXCEPT !.op = "whoami", !.account = account,
                                !.ok = ~r.thrown, !.error = r.error]
  /\ UNCHANGED <<gitMarker, tomlFiles>>
  /\ UNCHANGED exceptProject

\* codex <account> limits
CodexLimits(account, resp) ==
  /\ cmd.op = "none"
  /\ \E r \in {codexLimitsForAccount(fs, account, resp)} :
       cmd' = [NoCommand EXCEPT !.op = "limits", !.account = account,
                                !.ok = (~r.thrown /\ r.ok), !.error = r.error]
  /\ UNCHANGED <<gitMarker, tomlFiles>>
  /\ UNCHANGED exceptProject

\* codex list
CodexList(entries) ==
  /\ cmd.op = "none"
  /\ cmd' = [NoCommand EXCEPT !.op = "list", !.ok = TRUE,
                              !.out = listCodexAccounts(fs, dirs, entries)]
  /\ UNCHANGED <<gitMarker, tomlFiles>>
  /\ UNCHANGED exceptProject

\* codex snapshots
CodexSnapshots ==
  /\ cmd.op = "none"
  /\ cmd' = [NoCommand EXCEPT !.op = "snapshots", !.ok = TRUE,
                              !.out = listCodexSnapshots(fs, dirs)]
  /\ UNCHANGED <<gitMarker, tomlFiles>>
  /\ UNCHANGED exceptProject

\* Up to MaxSeq commands of the credential lifecycle, then commands that look
\* at what they left.
NextObserve ==
  \/ cmd.op = "none" /\ Next /\ nops' <= MaxSeq
  \/ \E a \in Accounts, dockerUp \in BOOLEAN, exitCode \in {0, 1} :
       CodexStatus(a, dockerUp, exitCode)
  \/ \E a \in Accounts, dockerUp \in BOOLEAN, exitCode \in {0, 1} :
       CodexRun(a, dockerUp, exitCode)
  \/ \E a \in Accounts : CodexWhoami(a)
  \/ \E a \in Accounts, resp \in {"ok", "timeout"} : CodexLimits(a, resp)
  \/ \E entries \in Orderings({a \in AllAccounts : codexHostHome(a) \in dirs}) :
       CodexList(entries)
  \/ CodexSnapshots
  \/ ResolveCommand("codex", "/r")
  \/ ToolsList("/r")

SpecObserve == Init /\ [][NextObserve]_vars
\* C22: status does not raise on account of the exit code of the in-container
\* check: with a non-zero exit code it completes without error (it raises
\* only when docker or the image is unavailable).
C22_StatusExitCodeIsNotAnError ==
  cmd.op = "status" =>
    /\ cmd.error # "exit-code"
    /\ cmd.exitCode # 0 => cmd.ok
    /\ ~cmd.ok => cmd.error = "docker"

\* A status of an account that is not logged in.
C22_Witness ==
  /\ cmd.op = "status" /\ cmd.account = "B" /\ cmd.exitCode = 1 /\ cmd.ok
  /\ vol[codexVolume("B")] = NoFile

\* C25 (as claimed): list returns one record per account directory, hasAuth
\* telling whether the directory holds auth.json now, sorted by label in
\* lexicographic (code unit) order, and [] without an account directory;
\* snapshots likewise by name.
C25_ListingsSortedLexicographically ==
  LET codeUnitOrder == <<"B", "a", "c", "s1", "s2">>
      pos(x) == CHOOSE i \in DOMAIN codeUnitOrder : codeUnitOrder[i] = x
      accountDirs == {a \in AllAccounts : codexHostHome(a) \in dirs}
      snapshotDirs == {n \in SnapshotNames : (codexSnapshotsDir \o "/" \o n) \in dirs}
  IN /\ cmd.op = "list" =>
          /\ Len(cmd.out) = Cardinality(accountDirs)
          /\ {cmd.out[i].account : i \in DOMAIN cmd.out} = accountDirs
          /\ \A i \in DOMAIN cmd.out :
               cmd.out[i].hasAuth = exists(fs, codexHostAuthJsonPath(cmd.out[i].account))
          /\ \A i, j \in DOMAIN cmd.out :
               i < j => pos(cmd.out[i].account) < pos(cmd.out[j].account)
     /\ cmd.op = "snapshots" =>
          /\ Len(cmd.out) = Cardinality(snapshotDirs)
          /\ {cmd.out[i].name : i \in DOMAIN cmd.out} = snapshotDirs
          /\ \A i \in DOMAIN cmd.out :
               cmd.out[i].hasAuth = exists(fs, codexSnapshotAuthPath(cmd.out[i].name))
          /\ \A i, j \in DOMAIN cmd.out :
               i < j => pos(cmd.out[i].name) < pos(cmd.out[j].name)

\* C25 (amended): the same, the order being that of localeCompare, in which
\* a lower-case letter sorts before the upper-case letters that follow it in
\* the alphabet ("a" before "B").
C25_ListingsSortedByLocaleCompare ==
  LET localeOrder == <<"a", "B", "c", "s1", "s2">>
      pos(x) == CHOOSE i \in DOMAIN localeOrder : localeOrder[i] = x
      accountDirs == {a \in AllAccounts : codexHostHome(a) \in dirs}
      snapshotDirs == {n \in SnapshotNames : (codexSnapshotsDir \o "/" \o n) \in dirs}
  IN /\ cmd.op = "list" =>
          /\ Len(cmd.out) = Cardinality(accountDirs)
          /\ {cmd.out[i].account : i \in DOMAIN cmd.out} = accountDirs
          /\ \A i \in DOMAIN cmd.out :
               cmd.out[i].hasAuth = exists(fs, codexHostAuthJsonPath(cmd.out[i].account))
          /\ \A i, j \in DOMAIN cmd.out :
               i < j => pos(cmd.out[i].account) < pos(cmd.out[j].account)
     /\ cmd.op = "snapshots" =>
          /\ Len(cmd.out) = Cardinality(snapshotDirs)
          /\ {cmd.out[i].name : i \in DOMAIN cmd.out} = snapshotDirs
          /\ \A i \in DOMAIN cmd.out :
               cmd.out[i].hasAuth = exists(fs, codexSnapshotAuthPath(cmd.out[i].name))
          /\ \A i, j \in DOMAIN cmd.out :
               i < j => pos(cmd.out[i].name) < pos(cmd.out[j].name)

\* A list over two account directories of which one holds no auth.json.
C25_Witness ==
  /\ cmd.op = "list" /\ Len(cmd.out) = 2
  /\ cmd.out[1] = [account |-> "a", hasAuth |-> TRUE]
  /\ cmd.out[2] = [account |-> "B", hasAuth |-> FALSE]

\* C26: a step of run, status, whoami, limits, list, snapshots, resolve or
\* tools list leaves every host file (credentials, backups, snapshots) as it
\* was; a step that creates, changes or moves one is a step of a login,
\* logout, save or switch.
C26_OnlyLifecycleCommandsTouchFiles ==
  [][/\ (cmd' # cmd /\ cmd'.op \in {"codex-run", "status", "whoami", "limits", "list",
                                      "snapshots", "resolve", "tools-list"})
          => (fs' = fs /\ saved' = saved)
     /\ fs' # fs
          => \E a \in Accounts :
               /\ cur'[a].op \in {"login", "logout", "save", "switch"}
               /\ pc'[a] \in {"login_flow", "done"}
               /\ (cur'[a] # cur[a] \/ pc'[a] # pc[a])]_vars

\* A status that found the account logged out, its host auth.json in place.
C26_Witness ==
  /\ cmd.op = "status" /\ cmd.account = "a" /\ cmd.exitCode = 1 /\ cmd.ok
  /\ exists(fs, codexHostAuthJsonPath("a"))
  /\ nops = MaxSeq
\* ---------------------------------------------------------------------------
\* The login child's output and the sandboxed browser
\* ---------------------------------------------------------------------------
onChunk_lateFlag(f, matches) ==
  IF f.opened THEN f
  ELSE IF matches /\ f.openBrowser
  THEN [f EXCEPT !.attempts = @ + 1, !.pending = @ + 1,
                 !.attemptAt = IF f.attempts = 0 THEN f.matched + 1 ELSE @]
  ELSE f

\* onChunk up to its await: when no attempt was made yet, the chunk matches
\* urlRe and openBrowser is set, opened becomes true and
\* openSandboxedBrowser is called.
onChunk(f, matches) ==
  IF f.opened THEN f
  ELSE IF matches /\ f.openBrowser
  THEN [f EXCEPT !.opened = TRUE, !.attempts = @ + 1, !.pending = @ + 1,
                 !.attemptAt = f.matched + 1]
  ELSE f

\* login with a method: the api-key method never enters
\* codexHostLoginAndSync; the others run the port guard when it applies and
\* start the child unless the guard throws.
FlowStart(method, portFree) ==
  /\ flow.pc = "idle"
  /\ flow' = IF method = "api-key"
             THEN [flow EXCEPT !.pc = "exited", !.method = method, !.result = "api-key"]
             ELSE IF loginPortGuard(method, portFree) = "busy"
             THEN [flow EXCEPT !.pc = "stopped", !.method = method, !.port = "busy",
                               !.result = "rejected"]
             ELSE [flow EXCEPT !.pc = "running", !.method = method,
                               !.port = loginPortGuard(method, portFree)]
  /\ UNCHANGED <<running, autoStop, listener, guard, calls>>
  /\ UNCHANGED exceptPort

\* child.stdout.on('data') / child.stderr.on('data'): the next chunk of one
\* of the streams arrives; matched counts the matching chunks delivered.
StreamData(stream) ==
  /\ flow.pc = "running"
  /\ flow[stream] # <<>>
  /\ flow' = [onChunk(flow, Head(flow[stream])) EXCEPT
                ![stream] = Tail(flow[stream]),
                !.matched = IF Head(flow[stream]) THEN @ + 1 ELSE @]
  /\ UNCHANGED <<running, autoStop, listener, guard, calls>>
  /\ UNCHANGED exceptPort

\* openSandboxedBrowser settles: it resolves, or it rejects and the catch
\* logs the message.
OpenSettles(ok) ==
  /\ flow.pending > 0
  /\ flow' = [flow EXCEPT !.pending = @ - 1, !.failed = IF ok THEN @ ELSE @ + 1]
  /\ UNCHANGED <<running, autoStop, listener, guard, calls>>
  /\ UNCHANGED exceptPort

ChildExit_syncAnyway(account, exitCode, written, dockerUp) ==
  /\ flow.pc = "running"
  /\ flow.stdout = <<>> /\ flow.stderr = <<>>
  /\ \E r \in {syncCodexAuthToVolume(fs, vol, account, dockerUp)} :
       /\ fs' = fs
       /\ vol' = r.vol
       /\ flow' = [flow EXCEPT !.pc = "exited", !.exitCode = exitCode, !.result = "sync",
                               !.dockerUp = dockerUp, !.synced = r.ok,
                               !.error = r.error, !.volBefore = vol[codexVolume(account)]]
  /\ UNCHANGED <<dirs, issued, pc, cur, saved, nops>>
  /\ UNCHANGED <<running, autoStop, listener, guard, calls>>
  /\ UNCHANGED <<limitsVars, configVars, projectVars, whoamiVars>>

\* await child; await syncCodexAuthToVolume(account): the child has ended
\* its streams and exits, having written auth.json into CODEX_HOME or not;
\* execa rejects on a non-zero exit code, else syncCodexAuthToVolume
\* follows and its error, if any, is the error of the login.
ChildExit(account, exitCode, written, dockerUp) ==
  /\ flow.pc = "running"
  /\ flow.stdout = <<>> /\ flow.stderr = <<>>
  /\ \E f \in {IF written
                THEN writeFile(fs, codexHostAuthJsonPath(account), freshAuth(account, 2))
                ELSE fs} :
       IF exitCode # 0
       THEN /\ fs' = f
            /\ vol' = vol
            /\ flow' = [flow EXCEPT !.pc = "exited", !.exitCode = exitCode,
                                    !.result = "rejected", !.error = "flow",
                                    !.volBefore = vol[codexVolume(account)]]
       ELSE \E r \in {syncCodexAuthToVolume(f, vol, account, dockerUp)} :
              /\ fs' = f
              /\ vol' = r.vol
              /\ flow' = [flow EXCEPT !.pc = "exited", !.exitCode = exitCode,
                                      !.result = "sync", !.dockerUp = dockerUp,
                                      !.synced = r.ok, !.error = r.error,
                                      !.volBefore = vol[codexVolume(account)]]
  /\ UNCHANGED <<dirs, issued, pc, cur, saved, nops>>
  /\ UNCHANGED <<running, autoStop, listener, guard, calls>>
  /\ UNCHANGED <<limitsVars, configVars, projectVars, whoamiVars>>

\* A login child that is to emit up to MaxChunks chunks on each stream, for
\* account "a" whose host auth.json and volume each hold a credential or not.
InitFlow ==
  /\ \E hostAuth \in {NoFile, freshAuth("a", 1)}, volAuth \in {NoFile, freshAuth("a", 1)} :
       /\ fs = IF hostAuth = NoFile THEN EmptyFs
               ELSE writeFile(EmptyFs, codexHostAuthJsonPath("a"), hostAuth)
       /\ vol = [w \in {codexVolume(a) : a \in AllAccounts} |->
                   IF w = codexVolume("a") THEN volAuth ELSE NoFile]
  /\ dirs = ensureDirIn({}, "codex", codexHostHome("a"))
  /\ issued = [a \in Accounts |-> 0]
  /\ pc = [a \in Accounts |-> "idle"]
  /\ cur = [a \in Accounts |-> NoCmd]
  /\ saved = [n \in SnapshotNames |-> [from |-> "", bytes |-> NoFile]]
  /\ nops = 0
  /\ LimitsIdle
  /\ ConfigIdle
  /\ ProjectIdle
  /\ WhoamiIdle
  /\ running = {}
  /\ autoStop = FALSE
  /\ listener = {}
  /\ guard = NoGuard
  /\ calls = 0
  /\ \E openBrowser \in BOOLEAN :
       \E out \in UNION {[1..n -> BOOLEAN] : n \in 0..MaxChunks},
          err \in UNION {[1..n -> BOOLEAN] : n \in 0..MaxChunks} :
         flow = [NoFlow EXCEPT !.openBrowser = openBrowser,
                               !.stdout = out, !.stderr = err]

NextFlow ==
  \/ \E method \in {"device", "browser", "api-key"} :
       \E portFree \in IF method = "browser" THEN BOOLEAN ELSE {TRUE} :
         FlowStart(method, portFree)
  \/ \E stream \in {"stdout", "stderr"} : StreamData(stream)
  \/ \E ok \in BOOLEAN : OpenSettles(ok)
  \/ \E exitCode \in {0, 1}, written \in BOOLEAN :
       \E dockerUp \in IF exitCode = 0 THEN BOOLEAN ELSE {TRUE} :
         ChildExit("a", exitCode, written, dockerUp)

SpecFlow == InitFlow /\ [][NextFlow]_vars

\* C30: in one login flow, however the chunks of stdout and stderr
\* interleave, at most one attempt to open the URL is made, for the first
\* chunk that matches; none is made when openBrowser is off; an attempt that
\* fails is not followed by another and does not fail the login, whose
\* outcome is that of the child's exit code.
C30_AtMostOneBrowserAttempt ==
  /\ flow.attempts <= 1
  /\ flow.attempts = 1 => flow.attemptAt = 1
  /\ ~flow.openBrowser => flow.attempts = 0
  /\ (flow.openBrowser /\ flow.matched >= 1) => flow.attempts = 1
  /\ flow.failed <= flow.attempts
  /\ (flow.pc = "exited" /\ flow.method # "api-key")
       => (flow.result = "sync") = (flow.exitCode = 0)

\* Two matching chunks, one on each stream, a failed attempt, and the login
\* went on to the sync.
C30_Witness ==
  /\ flow.pc = "exited" /\ flow.result = "sync"
  /\ flow.openBrowser /\ flow.failed = 1 /\ flow.attempts = 1 /\ flow.matched = 2
  /\ flow.stdout = <<>> /\ flow.stderr = <<>>
\* C29: a browser login has the port guard run before its child is started
\* and starts no child when the guard throws; a device or api-key login
\* never runs the guard.
C29_PortGuardOnlyForBrowserLogin ==
  /\ (flow.method = "browser") => flow.port # "unchecked"
  /\ (flow.method = "browser" /\ flow.pc \in {"running", "exited"}) => flow.port = "free"
  /\ flow.port = "busy" =>
       /\ flow.pc = "stopped" /\ flow.method = "browser" /\ flow.result = "rejected"
       /\ flow.attempts = 0 /\ flow.matched = 0
  /\ flow.method \in {"", "device", "api-key"} => flow.port = "unchecked"

\* A browser login that the guard stopped while the child had output to give.
C29_Witness ==
  /\ flow.pc = "stopped" /\ flow.method = "browser" /\ flow.port = "busy"
  /\ flow.stdout # <<>>

\* C31: the sync is performed exactly when the login child exits with
\* success; after a failed child the volume is as before and the error is the
\* child's; when the child succeeds and no host auth.json exists the sync
\* fails, its error is the error of the login (it names the expected path
\* when docker is up) and the volume is as before; a sync that succeeds
\* leaves the host file's bytes on the volume.
C31_SyncExactlyAfterSuccessfulFlow ==
  (flow.pc = "exited" /\ flow.method # "api-key") =>
    /\ (flow.result = "sync") = (flow.exitCode = 0)
    /\ flow.exitCode # 0 =>
         /\ ~flow.synced /\ flow.error = "flow"
         /\ vol[codexVolume("a")] = flow.volBefore
    /\ (flow.exitCode = 0 /\ ~exists(fs, codexHostAuthJsonPath("a"))) =>
         /\ ~flow.synced
         /\ flow.error = IF flow.dockerUp THEN codexHostAuthJsonPath("a") ELSE "docker"
         /\ vol[codexVolume("a")] = flow.volBefore
    /\ flow.synced =>
         /\ flow.exitCode = 0 /\ flow.error = NoFile
         /\ exists(fs, codexHostAuthJsonPath("a"))
         /\ vol[codexVolume("a")] = readFile(fs, codexHostAuthJsonPath("a"))

\* The child exited with success without a host auth.json, docker is up and
\* the volume held a credential.
C31_Witness ==
  /\ flow.pc = "exited" /\ flow.method = "device" /\ flow.exitCode = 0
  /\ ~exists(fs, codexHostAuthJsonPath("a")) /\ flow.dockerUp
  /\ flow.volBefore # NoFile /\ flow.error = codexHostAuthJsonPath("a")

\* C33: for the codex command, the first positional token goes to the head
\* of the argument list and the account slot is cleared exactly when the
\* token is a helper subcommand or starts with a dash; otherwise both are
\* as given; the account slot, when set, followed by the argument list is
\* always the sequence of tokens given.
C33_DisambiguateKeepsTokens ==
  cmd.op = "codex" =>
    LET moved == cmd.account \in CODEX_HELPER_SUBCOMMANDS \cup {"--model"}
        tokens(slot, list) == (IF slot = NoArg THEN <<>> ELSE <<slot>>) \o list
    IN /\ moved => (cmd.accountArg = NoArg /\ cmd.argsList = <<cmd.account>> \o cmd.args)
       /\ ~moved => (cmd.accountArg = cmd.account /\ cmd.argsList = cmd.args)
       /\ tokens(cmd.accountArg, cmd.argsList) = tokens(cmd.account, cmd.args)

\* "limits other": the subcommand went back to the head of the arguments.
C33_Witness ==
  /\ cmd.op = "codex" /\ cmd.account = "limits" /\ cmd.args = <<"other">>
  /\ cmd.accountArg = NoArg /\ cmd.argsList = <<"limits", "other">>

\* C39 (as claimed): the merged definition resolveConfiguredTool returns
\* with the sources of a tool id is the entry of that id in the merged tool
\* table.
C39_ResolvedDefinitionIsTableEntry ==
  resolved.toolId # "" => resolved.merged = resolved.def

\* C40 (as claimed): a config file that discovery returns is never in a
\* directory above the nearest directory, at or above cwd, that holds a .git
\* marker, be the marker a directory or a file.
C40_NeverAboveNearestMarker ==
  (cmd.op = "resolve" /\ cmd.tool \in BuiltIns /\ cmd.file # NoPath) =>
    LET level(d) == CASE d = "/" -> 0 [] d = "/r" -> 1 [] OTHER -> 2
        marked == {d \in Dirs : level(d) <= level(cmd.cwd) /\ gitMarker[d] # "none"}
    IN /\ marked # {}
       /\ \E d \in Dirs :
            /\ cmd.file \in {join(d, ".accountbox.toml"), join(d, ".devbox.toml")}
            /\ \A e \in marked : level(e) <= level(d)

\* C38 (as claimed): a device or browser login that fails leaves the host
\* auth.json it found in place as the active credential, with force too.
C38_FailedLoginKeepsActiveCredential ==
  \A a \in Accounts :
    (Finished(a, "login") /\ ~cur[a].ok /\ cur[a].method \in {"device", "browser"}
       /\ cur[a].pre # NoFile)
      => hostAuthOf(a) = cur[a].pre

\* C38 (amended): after a device or browser login that fails, without force
\* the host auth.json it found is still the active credential unless the
\* flow wrote a new one before the sync failed, which then replaces it; with
\* force the file it found is kept, byte for byte, as auth.json.bak-<ts> and
\* the active auth.json is absent unless the flow wrote a new one.
C38_FailedLoginKeepsCredentialOrBackup ==
  \A a \in Accounts :
    (Finished(a, "login") /\ ~cur[a].ok /\ cur[a].method \in {"device", "browser"}
       /\ cur[a].pre # NoFile)
      => IF cur[a].force
         THEN /\ cur[a].bak \in {loginBackupPath(a, t) : t \in Timestamps}
              /\ readFile(fs, cur[a].bak) = cur[a].pre
              /\ hostAuthOf(a) # cur[a].pre
              /\ hostAuthOf(a) \in {NoFile, freshAuth(a, issued[a])}
         ELSE /\ cur[a].bak = ""
              /\ hostAuthOf(a) \in {cur[a].pre, freshAuth(a, issued[a])}

\* A forced browser login failed and the account has no active credential:
\* the one it had is the backup.
C38_Witness ==
  \E a \in Accounts :
    /\ Finished(a, "login") /\ ~cur[a].ok /\ cur[a].force /\ cur[a].method = "browser"
    /\ cur[a].pre # NoFile /\ hostAuthOf(a) = NoFile
    /\ readFile(fs, cur[a].bak) = cur[a].pre

\* C37 (as claimed): whenever ensureCodexLoginPortFree returns, a bind of
\* the port on the loopback address has succeeded after any container was
\* stopped, and its listener is closed again, on the auto-stop path too.
C37_ReturnImpliesBindSucceeded ==
  guard.pc = "returned" => (guard.probed /\ guard.bound /\ guard.released)

\* ---------------------------------------------------------------------------
\* Named volumes of the container runners
\* ---------------------------------------------------------------------------
\* runContainerTool: a configured container tool run for an account; the
\* volume accountbox_<toolId>_<account> is mounted when the definition
\* declares configMountPath.
RunContainerTool(toolId, account, configMountPath) ==
  /\ Cardinality(mounts) < MaxSeq
  /\ mounts' = mounts \cup
       {[toolId |-> toolId, account |-> account,
         volume |-> IF configMountPath # ""
                    THEN "accountbox_" \o toolId \o "_" \o account ELSE ""]}
  /\ UNCHANGED <<userData, projectData, mergedTools, dispatched, resolved>>
  /\ UNCHANGED exceptConfig

\* runCodexInContainer: the built-in codex tool mounts the account's volume
\* at /root/.codex.
RunCodexInContainer(account) ==
  /\ Cardinality(mounts) < MaxSeq
  /\ mounts' = mounts \cup
       {[toolId |-> "codex", account |-> account, volume |-> codexVolume(account)]}
  /\ UNCHANGED <<userData, projectData, mergedTools, dispatched, resolved>>
  /\ UNCHANGED exceptConfig

\* Tool ids are keys of [tools.<id>] tables and account labels are free
\* text: neither is restricted to exclude the underscore.
NextVolumes ==
  \/ \E toolId \in {"web", "web_a", "codex_a"}, account \in {"a", "b", "a_b"},
        configMountPath \in {"", "/cfg"} :
       RunContainerTool(toolId, account, configMountPath)
  \/ \E account \in {"a", "b", "a_b"} : RunCodexInContainer(account)

SpecVolumes == Init /\ [][NextVolumes]_vars

\* C36 (as claimed): two runs with distinct (toolId, account) pairs never
\* mount the same named volume, the built-in codex tool's volume included.
C36_VolumesDistinctPerPair ==
  \A m, n \in mounts :
    (m.volume # "" /\ n.volume # "" /\ <<m.toolId, m.account>> # <<n.toolId, n.account>>)
      => m.volume # n.volume

====
